---- MODULE Spec2Model ----
(***************************************************************************)
(* Model of github.com/vedranvuk/config: the sanitizer (Default, Limit,    *)
(* Sanitize and the recursive walker they share), the Interface wrapper    *)
(* with its type registry (RegisterInterfaces, InitializeInterfaces), the  *)
(* file helpers (WriteConfigFile, ReadConfigFile) and Dir.LoadConfig.      *)
(*                                                                         *)
(* A Go value is a tree of nodes.  Every node is a record whose "kind" is  *)
(* the reflect.Kind of the value:                                          *)
(*   scalar    [kind |-> "int" | "uint" | "string" | "bool", val |-> ...]  *)
(*   text      [kind |-> "text", val |-> literal]  a leaf whose type       *)
(*             implements encoding.TextUnmarshaler                         *)
(*   pointer   [kind |-> "ptr", nilp |-> BOOLEAN, to |-> node]             *)
(*             (a nil pointer keeps in "to" the zero value of its element  *)
(*             type, which is how the node carries its static type)        *)
(*   interface [kind |-> "interface", nilp |-> BOOLEAN, to |-> node]       *)
(*   record    [kind |-> "struct", type |-> name, members |-> Seq(member)] *)
(*             member = [name, exported, tag, v]                           *)
(*   sequence  [kind |-> "slice" | "array" | "map", list |-> Seq(node)]    *)
(*             (a sequence that is decoded into also carries in "elem" the *)
(*             zero value of its element type)                             *)
(*   invalid   [kind |-> "invalid"]  the zero reflect.Value                *)
(* Strings and tag literals are sequences of one-character strings, so     *)
(* that parsing, splitting and lexicographic comparison are computed.      *)
(***************************************************************************)
EXTENDS Integers, Sequences, FiniteSets, TLC

VARIABLES
    config,    \* the container handed to the calls, as the caller sees it
    before,    \* the container as it was before the last call
    call,      \* the last call: [op, reset, clamp] or [op, override, goos, ext]
    result,    \* what the last call returned: [err, extras] or [err, extras, ret]
    ncalls,    \* number of calls made so far
    registry,  \* the type registry: a set of [name, type]
    disk,      \* the files: location -> [exists, data]
    saved      \* the container as it was last registered or written

vars == <<config, before, call, result, ncalls, registry, disk, saved>>

\* Number of successive calls made on one container.
MaxCalls == 2

----------------------------------------------------------------------------
(* Literals *)

DigitChars == {"0", "1", "2", "3", "4", "5", "6", "7", "8", "9"}

DigitVal(c) ==
    CASE c = "0" -> 0 [] c = "1" -> 1 [] c = "2" -> 2 [] c = "3" -> 3
      [] c = "4" -> 4 [] c = "5" -> 5 [] c = "6" -> 6 [] c = "7" -> 7
      [] c = "8" -> 8 [] c = "9" -> 9

\* Byte value of the characters that occur in the model's strings.
CharCode(c) ==
    CASE c \in DigitChars -> 48 + DigitVal(c)
      [] c = "," -> 44
      [] c = "-" -> 45
      [] c = ":" -> 58
      [] OTHER   -> 120

IsDigits(s) == Len(s) > 0 /\ \A i \in 1..Len(s) : s[i] \in DigitChars

RECURSIVE NatOf(_)
NatOf(s) ==
    IF s = <<>> THEN 0
    ELSE 10 * NatOf(SubSeq(s, 1, Len(s) - 1)) + DigitVal(s[Len(s)])

\* strconv.ParseUint(s, 10, 64) on literals far shorter than 20 digits.
ParseUint(s) == [ok |-> IsDigits(s), n |-> IF IsDigits(s) THEN NatOf(s) ELSE 0]

\* strconv.ParseInt(s, 10, 64): an optional sign, then digits.
ParseInt(s) ==
    IF s # <<>> /\ s[1] \in {"-", "+"}
    THEN LET u == ParseUint(Tail(s))
         IN  [ok |-> u.ok, n |-> IF s[1] = "-" THEN 0 - u.n ELSE u.n]
    ELSE ParseUint(s)

TrueLits  == {<<"1">>, <<"t">>, <<"T">>, <<"t","r","u","e">>,
              <<"T","R","U","E">>, <<"T","r","u","e">>}
FalseLits == {<<"0">>, <<"f">>, <<"F">>, <<"f","a","l","s","e">>,
              <<"F","A","L","S","E">>, <<"F","a","l","s","e">>}

\* strconv.ParseBool.
ParseBool(s) == [ok |-> s \in TrueLits \cup FalseLits, b |-> s \in TrueLits]

\* strings.Contains(s, sep) for a one-character separator.
Contains(s, sep) == \E i \in 1..Len(s) : s[i] = sep

\* strings.Split(s, sep) for a one-character separator.
RECURSIVE Split(_, _)
Split(s, sep) ==
    IF ~Contains(s, sep) THEN <<s>>
    ELSE LET i == CHOOSE k \in 1..Len(s) :
                      s[k] = sep /\ \A j \in 1..(k - 1) : s[j] # sep
         IN  <<SubSeq(s, 1, i - 1)>> \o Split(SubSeq(s, i + 1, Len(s)), sep)

\* Lexicographic comparison of two strings by byte value.
RECURSIVE CompareStrings(_, _)
CompareStrings(a, b) ==
    IF a = <<>> /\ b = <<>> THEN 0
    ELSE IF a = <<>> THEN -1
    ELSE IF b = <<>> THEN 1
    ELSE IF CharCode(a[1]) < CharCode(b[1]) THEN -1
    ELSE IF CharCode(a[1]) > CharCode(b[1]) THEN 1
    ELSE CompareStrings(Tail(a), Tail(b))

----------------------------------------------------------------------------
(* Values *)

ScalarKinds == {"int", "uint", "string", "bool"}

Invalid == [kind |-> "invalid"]

ZeroVal(k) ==
    CASE k \in {"int", "uint"} -> 0
      [] k = "bool"            -> FALSE
      [] OTHER                 -> <<>>

\* reflect.Zero(v.Type()).
RECURSIVE Zero(_)
Zero(v) ==
    CASE v.kind \in ScalarKinds \cup {"text"} -> [v EXCEPT !.val = ZeroVal(v.kind)]
      [] v.kind = "ptr"       -> [v EXCEPT !.nilp = TRUE, !.to = Zero(v.to)]
      [] v.kind = "interface" -> [v EXCEPT !.nilp = TRUE, !.to = Invalid]
      [] v.kind = "struct"    ->
            [v EXCEPT !.members =
                [i \in 1..Len(v.members) |->
                    [v.members[i] EXCEPT !.v = Zero(v.members[i].v)]]]
      [] v.kind = "array"     ->
            [v EXCEPT !.list = [i \in 1..Len(v.list) |-> Zero(v.list[i])]]
      [] v.kind \in {"slice", "map"} -> [v EXCEPT !.list = <<>>]
      [] OTHER                -> v

\* reflect.Value.IsZero.
RECURSIVE IsZero(_)
IsZero(v) ==
    CASE v.kind \in ScalarKinds \cup {"text"} -> v.val = ZeroVal(v.kind)
      [] v.kind \in {"ptr", "interface"} -> v.nilp
      [] v.kind = "struct" ->
            \A i \in 1..Len(v.members) : IsZero(v.members[i].v)
      [] v.kind = "array"  -> \A i \in 1..Len(v.list) : IsZero(v.list[i])
      [] OTHER             -> FALSE

----------------------------------------------------------------------------
(* Tags *)

ConfigTag  == <<"c","o","n","f","i","g">>
NilKey     == <<"n","i","l">>
RangeKey   == <<"r","a","n","g","e">>
DefaultKey == <<"d","e","f","a","u","l","t">>

EmptyTagmap == [k \in {} |-> <<>>]

RECURSIVE parseSegments(_, _)
parseSegments(segs, m) ==
    IF segs = <<>> THEN m
    ELSE LET s  == Head(segs)
             kv == Split(s, "=")
         IN  IF s = <<>> \/ Len(kv) # 2
             THEN parseSegments(Tail(segs), m)
             ELSE parseSegments(Tail(segs),
                      [k \in DOMAIN m \cup {kv[1]} |->
                          IF k = kv[1] THEN kv[2] ELSE m[k]])

\* parseTagmap: the key/value pairs of a config tag.
parseTagmap(tag) == parseSegments(Split(tag, ";"), EmptyTagmap)

----------------------------------------------------------------------------
(* reflectex: the conversion and comparison the sanitizer relies on.        *)
(* Two things the sanitizer's own code does not settle are drawn by the     *)
(* caller as an oracle orc = [cmp, inplace]:                                *)
(*   cmp      the outcome of comparing two pointer values,                  *)
(*   inplace  whether a string is parsed into a nil pointer by allocating   *)
(*            the pointee first and parsing into it (TRUE), or by parsing   *)
(*            into a fresh value that is stored on success only (FALSE).    *)

Oracles == [cmp : {-1, 0, 1}, inplace : BOOLEAN]

\* reflectex.StringToValue(s, v): [ok, v], v being the value afterwards.
RECURSIVE StringToValue(_, _, _)
StringToValue(s, v, orc) ==
    CASE v.kind \in {"string", "text"} -> [ok |-> TRUE, v |-> [v EXCEPT !.val = s]]
      [] v.kind = "int"  ->
            LET p == ParseInt(s)
            IN  [ok |-> p.ok, v |-> IF p.ok THEN [v EXCEPT !.val = p.n] ELSE v]
      [] v.kind = "uint" ->
            LET p == ParseUint(s)
            IN  [ok |-> p.ok, v |-> IF p.ok THEN [v EXCEPT !.val = p.n] ELSE v]
      [] v.kind = "bool" ->
            LET p == ParseBool(s)
            IN  [ok |-> p.ok, v |-> IF p.ok THEN [v EXCEPT !.val = p.b] ELSE v]
      [] v.kind = "ptr"  ->
            LET r == StringToValue(s, IF v.nilp THEN Zero(v.to) ELSE v.to, orc)
            IN  IF r.ok \/ orc.inplace \/ ~v.nilp
                THEN [ok |-> r.ok, v |-> [v EXCEPT !.nilp = FALSE, !.to = r.v]]
                ELSE [ok |-> FALSE, v |-> v]
      [] OTHER -> [ok |-> FALSE, v |-> v]

\* reflectex.CompareValues(a, b): negative, zero or positive.
CompareValues(a, b, orc) ==
    CASE a.kind \in {"int", "uint"} ->
            IF a.val < b.val THEN -1 ELSE IF a.val > b.val THEN 1 ELSE 0
      [] a.kind \in {"string", "text"} -> CompareStrings(a.val, b.val)
      [] a.kind = "bool" ->
            IF a.val = b.val THEN 0 ELSE IF b.val THEN -1 ELSE 1
      [] OTHER -> orc.cmp

\* A leaf whose type implements encoding.TextUnmarshaler with a value
\* receiver: UnmarshalText validates the text and cannot change the
\* receiver.  It rejects text holding a character that is no digit.
ImplementsTextUnmarshaler(v) == v.kind = "text"

UnmarshalText(s, v) == [ok |-> \A i \in 1..Len(s) : s[i] \in DigitChars, v |-> v]

----------------------------------------------------------------------------
(* The sanitizer *)
(* An operator that needs the result of a call more than once takes it as *)
(* a parameter, so that each call of the code is one call of the model.    *)

Warn(e, name) == [err |-> e, field |-> name]

Keep(v) == [v |-> v, w |-> <<>>]

\* The end of setDefaults: r is what StringToValue(defval, v) returned.
converted(r) ==
    [v |-> r.v, w |-> IF r.ok THEN <<>> ELSE <<Warn("StringToValue", "")>>]

\* Variants of defaulted that each differ from the code in one decision;
\* the properties of Default further down tell them from defaulted.
\* Without the reset flag: a non-empty field is always kept.
defaultedWithoutReset(v, name, tags, reset, orc, nv) ==
    IF ~nv.ok THEN [v |-> v, w |-> <<Warn("ErrInvalidNil", name)>>]
    ELSE IF ~IsZero(v)
            /\ ~(NilKey \in DOMAIN tags /\ CompareValues(v, nv.v, orc) = 0)
    THEN Keep(v)
    ELSE IF ImplementsTextUnmarshaler(v)
    THEN [v |-> v,
          w |-> IF UnmarshalText(tags[DefaultKey], v).ok THEN <<>>
                ELSE <<Warn("ErrInvalidDefault", name)>>]
    ELSE converted(StringToValue(tags[DefaultKey], v, orc))

\* Without the comparison with the nil literal: only zero is empty.
defaultedWithoutNil(v, name, tags, reset, orc, nv) ==
    IF ~nv.ok THEN [v |-> v, w |-> <<Warn("ErrInvalidNil", name)>>]
    ELSE IF ~reset /\ ~IsZero(v)
    THEN Keep(v)
    ELSE IF ImplementsTextUnmarshaler(v)
    THEN [v |-> v,
          w |-> IF UnmarshalText(tags[DefaultKey], v).ok THEN <<>>
                ELSE <<Warn("ErrInvalidDefault", name)>>]
    ELSE converted(StringToValue(tags[DefaultKey], v, orc))

\* With the nil literal replacing the zero test instead of adding to it.
defaultedNilOnly(v, name, tags, reset, orc, nv) ==
    IF ~nv.ok THEN [v |-> v, w |-> <<Warn("ErrInvalidNil", name)>>]
    ELSE IF ~reset
            /\ ~(IF NilKey \in DOMAIN tags
                 THEN CompareValues(v, nv.v, orc) = 0
                 ELSE IsZero(v))
    THEN Keep(v)
    ELSE IF ImplementsTextUnmarshaler(v)
    THEN [v |-> v,
          w |-> IF UnmarshalText(tags[DefaultKey], v).ok THEN <<>>
                ELSE <<Warn("ErrInvalidDefault", name)>>]
    ELSE converted(StringToValue(tags[DefaultKey], v, orc))

\* With the text-unmarshalable leaf served first, before the field is
\* tested for emptiness.
defaultedTextFirst(v, name, tags, reset, orc, nv) ==
    IF ImplementsTextUnmarshaler(v)
    THEN [v |-> v,
          w |-> IF UnmarshalText(tags[DefaultKey], v).ok THEN <<>>
                ELSE <<Warn("ErrInvalidDefault", name)>>]
    ELSE IF ~nv.ok THEN [v |-> v, w |-> <<Warn("ErrInvalidNil", name)>>]
    ELSE IF ~reset /\ ~IsZero(v)
            /\ ~(NilKey \in DOMAIN tags /\ CompareValues(v, nv.v, orc) = 0)
    THEN Keep(v)
    ELSE converted(StringToValue(tags[DefaultKey], v, orc))

\* setDefaults from the nil key on: nv is the nil literal converted to the
\* field's type (ok when the tag has no nil key).
defaulted(v, name, tags, reset, orc, nv) ==
    IF ~nv.ok THEN [v |-> v, w |-> <<Warn("ErrInvalidNil", name)>>]
    ELSE IF ~reset /\ ~IsZero(v)
            /\ ~(NilKey \in DOMAIN tags /\ CompareValues(v, nv.v, orc) = 0)
    THEN Keep(v)
    ELSE IF ImplementsTextUnmarshaler(v)
    THEN [v |-> v,
          w |-> IF UnmarshalText(tags[DefaultKey], v).ok THEN <<>>
                ELSE <<Warn("ErrInvalidDefault", name)>>]
    ELSE converted(StringToValue(tags[DefaultKey], v, orc))

\* setDefaults: the default operation on one leaf.
setDefaults(v, name, tags, reset, orc) ==
    IF DefaultKey \notin DOMAIN tags
    THEN [v |-> v, w |-> <<Warn("ErrNoDefault", name)>>]
    ELSE defaulted(v, name, tags, reset, orc,
            IF NilKey \in DOMAIN tags
            THEN StringToValue(tags[NilKey], Zero(v), orc)
            ELSE [ok |-> TRUE, v |-> v])

\* One turn of the loop of setLimits over the choices, cv being the choice
\* converted: "invalid" when it does not parse, "matched", or the rest.
RECURSIVE matchChoices(_, _, _)
matchChoice(vals, v, orc, cv) ==
    IF ~cv.ok THEN "invalid"
    ELSE IF CompareValues(v, cv.v, orc) = 0 THEN "matched"
    ELSE matchChoices(Tail(vals), v, orc)

matchChoices(vals, v, orc) ==
    IF vals = <<>> THEN "unmatched"
    ELSE matchChoice(vals, v, orc, StringToValue(Head(vals), Zero(v), orc))

\* A variant of limitChoices that sets a field without a default key to the
\* zero value instead of leaving it to setDefaults.
limitChoicesZeroing(v, name, tags, clamp, orc, m) ==
    IF m = "invalid" THEN [v |-> v, w |-> <<Warn("ErrInvalidRange", name)>>]
    ELSE IF m = "matched" /\ ~clamp THEN Keep(v)
    ELSE IF DefaultKey \notin DOMAIN tags THEN Keep(Zero(v))
    ELSE setDefaults(v, name, tags, TRUE, orc)

\* The choices of setLimits, m being the outcome of the loop.
limitChoices(v, name, tags, clamp, orc, m) ==
    IF m = "invalid" THEN [v |-> v, w |-> <<Warn("ErrInvalidRange", name)>>]
    ELSE IF m = "matched" /\ ~clamp THEN Keep(v)
    ELSE setDefaults(v, name, tags, TRUE, orc)

\* A violated bound without clamp: r is what StringToValue(def, v) returned.
fallback(r, name) ==
    [v   |-> r.v,
     w   |-> IF r.ok THEN <<>> ELSE <<Warn("ErrInvalidRange", name)>>,
     ret |-> ~r.ok]

\* Variants of bounded: one that never clamps and one that always does.
boundedWithoutClamp(v, cv, side, name, tags, clamp, orc, c) ==
    IF ~cv.ok
    THEN [v |-> v, w |-> <<Warn("ErrInvalidRange", name)>>, ret |-> TRUE]
    ELSE IF ~(IF side = "min" THEN c < 0 ELSE c > 0)
    THEN [v |-> v, w |-> <<>>, ret |-> FALSE]
    ELSE IF DefaultKey \in DOMAIN tags
    THEN fallback(StringToValue(tags[DefaultKey], v, orc), name)
    ELSE fallback(StringToValue(<<>>, Zero(v), orc), name)

boundedAlwaysClamp(v, cv, side, name, tags, clamp, orc, c) ==
    IF ~cv.ok
    THEN [v |-> v, w |-> <<Warn("ErrInvalidRange", name)>>, ret |-> TRUE]
    ELSE IF ~(IF side = "min" THEN c < 0 ELSE c > 0)
    THEN [v |-> v, w |-> <<>>, ret |-> FALSE]
    ELSE [v |-> cv.v, w |-> <<>>, ret |-> FALSE]

\* A variant of bounded that clamps to zero at the maximum.
boundedZeroAtMax(v, cv, side, name, tags, clamp, orc, c) ==
    IF ~cv.ok
    THEN [v |-> v, w |-> <<Warn("ErrInvalidRange", name)>>, ret |-> TRUE]
    ELSE IF ~(IF side = "min" THEN c < 0 ELSE c > 0)
    THEN [v |-> v, w |-> <<>>, ret |-> FALSE]
    ELSE IF clamp
    THEN [v |-> IF side = "max" THEN Zero(v) ELSE cv.v, w |-> <<>>, ret |-> FALSE]
    ELSE IF DefaultKey \in DOMAIN tags
    THEN fallback(StringToValue(tags[DefaultKey], v, orc), name)
    ELSE fallback(StringToValue(<<>>, Zero(v), orc), name)

\* One bound of setLimits (side "min" or "max"), cv being the bound
\* converted and v the field as the conversion left it: [v, w, ret], ret
\* telling that setLimits returns at once.
bounded(v, cv, side, name, tags, clamp, orc, c) ==
    IF ~cv.ok
    THEN [v |-> v, w |-> <<Warn("ErrInvalidRange", name)>>, ret |-> TRUE]
    ELSE IF ~(IF side = "min" THEN c < 0 ELSE c > 0)
    THEN [v |-> v, w |-> <<>>, ret |-> FALSE]
    ELSE IF clamp THEN [v |-> cv.v, w |-> <<>>, ret |-> FALSE]
    ELSE IF DefaultKey \in DOMAIN tags
    THEN fallback(StringToValue(tags[DefaultKey], v, orc), name)
    ELSE fallback(StringToValue(<<>>, Zero(v), orc), name)

\* alias: v is the pointer that cv holds (the minimum's clamp stored it), so
\* a conversion into cv in place writes through to v's pointee.
limitBound2(v, cv, side, alias, name, tags, clamp, orc) ==
    bounded(IF alias /\ orc.inplace THEN cv.v ELSE v, cv, side,
            name, tags, clamp, orc,
            IF cv.ok
            THEN CompareValues(IF alias /\ orc.inplace THEN cv.v ELSE v,
                               cv.v, orc)
            ELSE 0)

limitBound(v, lit, side, alias, name, tags, clamp, orc) ==
    IF lit = <<>> THEN [v |-> v, w |-> <<>>, ret |-> FALSE]
    ELSE limitBound2(v,
            StringToValue(lit, IF alias /\ orc.inplace THEN v ELSE Zero(v), orc),
            side, alias, name, tags, clamp, orc)

\* The maximum of setLimits, lo being the outcome of the minimum.
limitMax(v, vals, name, tags, clamp, orc, lo) ==
    IF lo.ret THEN [v |-> lo.v, w |-> lo.w]
    ELSE (LET hi == limitBound(lo.v, vals[2], "max",
                               v.kind = "ptr" /\ clamp /\ lo.v # v,
                               name, tags, clamp, orc)
          IN  [v |-> hi.v, w |-> lo.w \o hi.w])

\* The range of setLimits, vals being the range split at ":".
limitRange(v, vals, name, tags, clamp, orc) ==
    IF Len(vals) # 2
    THEN [v |-> v, w |-> <<Warn("ErrInvalidRange", name)>>]
    ELSE limitMax(v, vals, name, tags, clamp, orc,
                  limitBound(v, vals[1], "min", FALSE, name, tags, clamp, orc))

\* setLimits: the limit operation on one leaf.
setLimits(v, name, tags, clamp, orc) ==
    IF RangeKey \notin DOMAIN tags
    THEN [v |-> v, w |-> <<Warn("ErrNoRange", name)>>]
    ELSE IF Contains(tags[RangeKey], ",")
    THEN limitChoices(v, name, tags, clamp, orc,
                      matchChoices(Split(tags[RangeKey], ","), v, orc))
    ELSE IF Contains(tags[RangeKey], ":")
    THEN limitRange(v, Split(tags[RangeKey], ":"), name, tags, clamp, orc)
    ELSE Keep(v)

\* reflect.Value.CanSet: fl = [addr, ro] are the value's flags, addressable
\* and reached through an unexported field.
CanSet(v, fl) == v.kind # "invalid" /\ fl.addr /\ ~fl.ro

\* The limits of the default branch of traverse, d being the outcome of
\* the defaults.
limited(d, name, md, tags, orc, l) == [v |-> l.v, w |-> d.w \o l.w]

leafLimits(d, name, md, tags, orc) ==
    limited(d, name, md, tags, orc,
            IF md.limits THEN setLimits(d.v, name, tags, md.clamp, orc)
            ELSE Keep(d.v))

\* A variant of leaf that does not ask whether the value can be set.
leafUnguarded(v, fl, name, md, tags, orc) ==
    leafLimits(IF md.defaults
               THEN setDefaults(v, name, tags, md.reset, orc)
               ELSE Keep(v),
               name, md, tags, orc)

\* A variant of leaf that leaves nil pointers alone.
leafOfScalars(v, fl, name, md, tags, orc) ==
    IF ~CanSet(v, fl) \/ v.kind = "ptr" THEN Keep(v)
    ELSE leafLimits(IF md.defaults
                    THEN setDefaults(v, name, tags, md.reset, orc)
                    ELSE Keep(v),
                    name, md, tags, orc)

\* The default branch of traverse: the operations on one leaf.
leaf(v, fl, name, md, tags, orc) ==
    IF ~CanSet(v, fl) THEN Keep(v)
    ELSE leafLimits(IF md.defaults
                    THEN setDefaults(v, name, tags, md.reset, orc)
                    ELSE Keep(v),
                    name, md, tags, orc)

\* reflect.Indirect(e), and reflect.Value.Elem of an interface.
Indirect(e) ==
    IF e.kind \in {"ptr", "interface"}
    THEN (IF e.nilp THEN Invalid ELSE e.to)
    ELSE e

\* e after the walk of Indirect(e) left that value as x.
Outer(e, x) ==
    IF e.kind \in {"ptr", "interface"}
    THEN (IF e.nilp THEN e ELSE [e EXCEPT !.to = x])
    ELSE x

\* A variant of IndirectFlags under which nothing reached through an
\* interface can be set.
IndirectFlagsSealed(e, fl) ==
    IF e.kind = "ptr" THEN [addr |-> TRUE, ro |-> fl.ro]
    ELSE IF e.kind = "interface" THEN [addr |-> FALSE, ro |-> TRUE]
    ELSE fl

\* The flags of Indirect(e), fl being those of e.
IndirectFlags(e, fl) ==
    IF e.kind = "ptr" THEN [addr |-> TRUE, ro |-> fl.ro]
    ELSE IF e.kind = "interface" THEN [addr |-> FALSE, ro |-> fl.ro]
    ELSE fl

\* traverse: [v, w], the value after the walk and the warnings it added.
\* md = [defaults, limits, reset, clamp].
RECURSIVE traverse(_, _, _, _, _, _)
RECURSIVE traverseElems(_, _, _, _, _, _)
RECURSIVE traverseFields(_, _, _, _)

ElemsDone(e, r, rs) ==
    [list |-> <<Outer(e, r.v)>> \o rs.list, w |-> r.w \o rs.w]

\* traverse(reflect.Indirect(e), ...) for each element e of a sequence; fl
\* are the flags of an element.
traverseElems(list, fl, name, md, tags, orc) ==
    IF list = <<>> THEN [list |-> <<>>, w |-> <<>>]
    ELSE ElemsDone(Head(list),
            traverse(IF Head(list).kind = "ptr" THEN Indirect(Head(list))
                     ELSE Head(list),
                     IF Head(list).kind = "ptr"
                     THEN IndirectFlags(Head(list), fl) ELSE fl,
                     name, md, tags, orc),
            traverseElems(Tail(list), fl, name, md, tags, orc))

FieldsDone(m, r, rs) ==
    [list |-> <<[m EXCEPT !.v = r.v]>> \o rs.list,
     w    |-> (IF m.tag.ok THEN <<>> ELSE <<Warn("ErrNoTag", m.name)>>)
              \o r.w \o rs.w]

\* The loop of traverse over the fields of a record.
traverseFields(members, fl, md, orc) ==
    IF members = <<>> THEN [list |-> <<>>, w |-> <<>>]
    ELSE FieldsDone(Head(members),
            traverse(Head(members).v,
                     [addr |-> fl.addr, ro |-> fl.ro \/ ~Head(members).exported],
                     Head(members).name, md, parseTagmap(Head(members).tag.s), orc),
            traverseFields(Tail(members), fl, md, orc))

ListDone(v, r)   == [v |-> [v EXCEPT !.list = r.list], w |-> r.w]
RecordDone(v, r) == [v |-> [v EXCEPT !.members = r.list], w |-> r.w]
ElemDone(v, r)   == [v |-> Outer(v, r.v), w |-> r.w]

traverse(v, fl, name, md, tags, orc) ==
    CASE v.kind \in {"array", "slice", "map"} ->
            ListDone(v, traverseElems(v.list,
                [addr |-> (v.kind = "slice") \/ (v.kind = "array" /\ fl.addr),
                 ro   |-> fl.ro],
                name, md, tags, orc))
      [] v.kind = "struct" ->
            RecordDone(v, traverseFields(v.members, fl, md, orc))
      [] v.kind = "interface" \/ (v.kind = "ptr" /\ ~IsZero(v)) ->
            ElemDone(v, traverse(Indirect(v), IndirectFlags(v, fl),
                                 name, md, tags, orc))
      [] OTHER -> leaf(v, fl, name, md, tags, orc)

\* A variant of ValidParam that accepts pointers to records only.
ValidParamPointerOnly(c) == c.kind = "ptr" /\ ~c.nilp /\ c.to.kind = "struct"

\* v := reflect.Indirect(reflect.ValueOf(config)) and the parameter check
\* shared by Sanitize, Default and Limit.
ValidParam(c) ==
    IF c.kind = "ptr" THEN ~c.nilp /\ c.to.kind = "struct"
    ELSE c.kind = "struct"

Walked(c, r) ==
    [config |-> IF c.kind = "ptr" THEN [c EXCEPT !.to = r.v] ELSE r.v,
     result |-> [err    |-> IF Len(r.w) > 0 THEN "ErrWarning" ELSE "nil",
                 extras |-> r.w]]

\* The body shared by SanitizeValue, Default and Limit: [config, result].
sanitized(c, md, orc) ==
    IF ~ValidParam(c)
    THEN [config |-> c, result |-> [err |-> "ErrInvalidParam", extras |-> <<>>]]
    ELSE Walked(c, traverse(IF c.kind = "ptr" THEN c.to ELSE c,
                            [addr |-> c.kind = "ptr", ro |-> FALSE],
                            "", md, EmptyTagmap, orc))

\* A variant of Sanitize that limits without clamping.
SanitizeWithoutClamp(c, orc) ==
    sanitized(c, [defaults |-> TRUE, limits |-> TRUE,
                  reset |-> FALSE, clamp |-> FALSE], orc)

Sanitize(c, orc) ==
    sanitized(c, [defaults |-> TRUE, limits |-> TRUE,
                  reset |-> FALSE, clamp |-> TRUE], orc)

Default(c, reset, orc) ==
    sanitized(c, [defaults |-> TRUE, limits |-> FALSE,
                  reset |-> reset, clamp |-> FALSE], orc)

Limit(c, clamp, orc) ==
    sanitized(c, [defaults |-> FALSE, limits |-> TRUE,
                  reset |-> FALSE, clamp |-> clamp], orc)

----------------------------------------------------------------------------
(* The containers the calls are made on *)

Scalar(k, x) == [kind |-> k, val |-> x]
Ptr(n)       == [kind |-> "ptr", nilp |-> FALSE, to |-> n]
NilPtr(n)    == [kind |-> "ptr", nilp |-> TRUE, to |-> Zero(n)]
Iface(n)     == [kind |-> "interface", nilp |-> FALSE, to |-> n]
NilIface     == [kind |-> "interface", nilp |-> TRUE, to |-> Invalid]
Struct(t, m) == [kind |-> "struct", type |-> t, members |-> m]
List(k, l)   == [kind |-> k, list |-> l]

Member(n, e, t, v) == [name |-> n, exported |-> e, tag |-> t, v |-> v]

\* A key of a tag: absent (<<>>) or present with a literal (<<lit>>).
Segment(key, opt) ==
    IF opt = <<>> THEN <<>> ELSE <<key \o <<"=">> \o opt[1]>>

RECURSIVE Join(_)
Join(segs) ==
    IF segs = <<>> THEN <<>>
    ELSE IF Len(segs) = 1 THEN segs[1]
    ELSE segs[1] \o <<";">> \o Join(Tail(segs))

\* The struct tag of a field: reflect.StructTag.Lookup("config") gives
\* (s, ok).  A field with none of the keys carries no config tag.
Tag(n, r, d) ==
    LET segs == Segment(NilKey, n) \o Segment(RangeKey, r) \o Segment(DefaultKey, d)
    IN  [ok |-> segs # <<>>, s |-> Join(segs)]

NoTag == [ok |-> FALSE, s |-> <<>>]

Defaults == {<<>>, <<<<"1">>>>, <<<<"x">>>>}
Nils     == {<<>>, <<<<"3">>>>, <<<<"x">>>>}
Ranges   == {<<>>,
             <<<<"2", ":", "8">>>>,
             <<<<":", "8">>>>,
             <<<<"2", ":">>>>,
             <<<<":">>>>,
             <<<<"8", ":", "2">>>>,
             <<<<"2", ":", "x">>>>,
             <<<<"2", ":", "8", ":", "9">>>>,
             <<<<"3", ",", "7">>>>,
             <<<<"3", ",", "x">>>>,
             <<<<"7">>>>}

Scalars ==
    {Scalar("int", x) : x \in {0, 3, 9, 10}}
    \cup {Scalar("string", x) : x \in {<<>>, <<"3">>, <<"9">>, <<"1", "0">>}}
    \cup {Scalar("bool", x) : x \in BOOLEAN}

\* The nil pointers of the types *T and **T, T a scalar kind.
ZeroScalars == {Zero(x) : x \in Scalars}

Leaves ==
    Scalars
    \cup {Ptr(x) : x \in Scalars}
    \cup {Ptr(Ptr(x)) : x \in Scalars}
    \cup {NilPtr(x) : x \in ZeroScalars}
    \cup {Ptr(NilPtr(x)) : x \in ZeroScalars}
    \cup {NilPtr(Ptr(x)) : x \in ZeroScalars}

Example(tag, v) == Struct("Example", <<Member("F", TRUE, tag, v)>>)

\* A pointer to a record with one tagged field: every leaf shape with the
\* default and nil keys, and every scalar with every range.
LeafContainers ==
    {Ptr(Example(Tag(n, r, d), v)) :
        n \in Nils, r \in {<<>>, <<<<"2", ":", "8">>>>}, d \in Defaults, v \in Leaves}
    \cup
    {Ptr(Example(Tag(n, r, d), v)) :
        n \in {<<>>, <<<<"3">>>>}, r \in Ranges, d \in Defaults, v \in Scalars}


D1 == Tag(<<>>, <<>>, <<<<"1">>>>)

\* A record with a field of each scalar kind, as the tests' sanitizeChild.
Child(i, p) ==
    Struct("Child",
        <<Member("Int", TRUE, D1, Scalar("int", i)),
          Member("PInt", TRUE, D1, p),
          Member("priv", FALSE, D1, Scalar("int", i)),
          Member("Bare", TRUE, NoTag, Scalar("string", <<>>))>>)

Children ==
    {Child(i, p) : i \in {0, 9},
                   p \in {NilPtr(Scalar("int", 0)), Ptr(Scalar("int", 0))}}

\* The dynamic-type wrapper: Interface{Type string; Value interface{}}.
Interface(t, val) ==
    Struct("Interface",
        <<Member("Type", TRUE, NoTag, Scalar("string", t)),
          Member("Value", TRUE, NoTag, val)>>)

Wrappers ==
    {Interface(t, val) :
        t \in {<<>>, <<"T">>},
        val \in {NilIface, Iface(Scalar("int", 0))}
                \cup {Iface(Ptr(c)) : c \in Children}}

\* The tests' interfaceContainer, its wrappers tagged or not.
InterfaceContainers ==
    {Struct("interfaceContainer",
        <<Member("Iface", TRUE, t, w),
          Member("IfaceP", TRUE, t, p)>>) :
        t \in {NoTag, D1},
        w \in Wrappers,
        p \in {NilPtr(Interface(<<>>, NilIface))}
              \cup {Ptr(x) : x \in {Interface(<<"T">>, Iface(Ptr(c))) : c \in Children}}}

\* The tests' sanitizeParent: records held in sequences and maps, by value
\* and by pointer, and a text-unmarshalable leaf.
Parents ==
    {Struct("sanitizeParent",
        <<Member("Coll", TRUE, NoTag, List(k, l)),
          Member("Stamp", TRUE, Tag(n, <<>>, d), [kind |-> "text", val |-> s])>>) :
        k \in {"array", "slice", "map"},
        l \in UNION {{<<c, Ptr(c), NilPtr(c)>>, <<c, Ptr(c)>>} : c \in Children},
        n \in {<<>>, <<<<"3">>>>}, d \in Defaults, s \in {<<>>, <<"3">>}}

\* A record whose first field carries the literals under test, followed by
\* a sibling and a nested record with defaults of their own.
Mixed ==
    {Struct("Mixed",
        <<Member("First", TRUE, Tag(n, <<>>, d), Scalar("int", x)),
          Member("Second", TRUE, D1, Scalar("int", 0)),
          Member("Sub", TRUE, NoTag, Child(0, NilPtr(Scalar("int", 0)))),
          Member("hidden", FALSE, NoTag, Scalar("int", 9))>>) :
        n \in {<<>>, <<<<"x">>>>}, d \in {<<<<"1">>>>, <<<<"x">>>>}, x \in {0, 9}}

Records == InterfaceContainers \cup Parents \cup Mixed

\* What a caller can hand to Sanitize, Default and Limit.
Containers ==
    LeafContainers
    \cup {Ptr(r) : r \in Records}
    \cup Records
    \cup {Example(Tag(<<>>, r, <<<<"1">>>>), v) :
            r \in {<<>>, <<<<"2", ":", "8">>>>},
            v \in {Scalar("int", 0), Ptr(Scalar("int", 0)), NilPtr(Scalar("int", 0))}}
    \cup {NilPtr(Example(D1, Scalar("int", 0))),
          Ptr(Ptr(Example(D1, Scalar("int", 0)))),
          Ptr(Scalar("int", 0)),
          Scalar("int", 0),
          Invalid}

----------------------------------------------------------------------------
(* The state machine: calls made one after another on one container *)

NoCall == [op |-> "none", reset |-> FALSE, clamp |-> FALSE]

\* The locations Dir reads, in the order of its documentation.
Dirs == {"program", "user", "system"}

NoFile  == [exists |-> FALSE, data |-> <<>>]
NoFiles == [d \in Dirs |-> NoFile]

\* The sanitizer touches neither the registry nor the files.
Init ==
    /\ config \in Containers
    /\ before = config
    /\ call = NoCall
    /\ result = [err |-> "nil", extras |-> <<>>]
    /\ ncalls = 0
    /\ registry = {}
    /\ disk = NoFiles
    /\ saved = Invalid

Returned(r, c) ==
    /\ before' = config
    /\ config' = r.config
    /\ result' = r.result
    /\ call' = c
    /\ ncalls' = ncalls + 1
    /\ UNCHANGED <<registry, disk, saved>>

CallDefault ==
    /\ ncalls < MaxCalls
    /\ \E reset \in BOOLEAN, orc \in Oracles :
          Returned(Default(config, reset, orc),
                   [op |-> "Default", reset |-> reset, clamp |-> FALSE])

CallLimit ==
    /\ ncalls < MaxCalls
    /\ \E clamp \in BOOLEAN, orc \in Oracles :
          Returned(Limit(config, clamp, orc),
                   [op |-> "Limit", reset |-> FALSE, clamp |-> clamp])

CallSanitize ==
    /\ ncalls < MaxCalls
    /\ \E orc \in Oracles :
          Returned(Sanitize(config, orc),
                   [op |-> "Sanitize", reset |-> FALSE, clamp |-> TRUE])

Next == CallDefault \/ CallLimit \/ CallSanitize

Spec == Init /\ [][Next]_vars

----------------------------------------------------------------------------
(* What the claims speak of: the record fields of the container, each as   *)
(* it was before the last call and as it is after it.                      *)

\* The fields of the records in b (before) and a (after), at any depth:
\* [owner, name, tags, set, exported, tagged, pre, post], set telling that
\* the field is settable (addressable, exported, reached through exported
\* fields only), tagged that it carries a config tag.
RECURSIVE Fields(_, _, _)
Fields(b, a, fl) ==
    CASE b.kind = "struct" ->
            UNION {
                {[owner |-> b.type,
                  name  |-> b.members[i].name,
                  tags  |-> parseTagmap(b.members[i].tag.s),
                  set   |-> fl.addr /\ ~fl.ro /\ b.members[i].exported,
                  exported |-> b.members[i].exported,
                  tagged   |-> b.members[i].tag.ok,
                  pre   |-> b.members[i].v,
                  post  |-> a.members[i].v]}
                \cup Fields(b.members[i].v, a.members[i].v,
                            [addr |-> fl.addr,
                             ro   |-> fl.ro \/ ~b.members[i].exported])
                : i \in 1..Len(b.members)}
      [] b.kind = "ptr" /\ ~b.nilp ->
            Fields(b.to, a.to, [addr |-> TRUE, ro |-> fl.ro])
      [] b.kind = "interface" /\ ~b.nilp ->
            Fields(b.to, a.to, [addr |-> FALSE, ro |-> fl.ro])
      [] b.kind \in {"array", "slice", "map"} ->
            UNION {Fields(b.list[i], a.list[i],
                          [addr |-> (b.kind = "slice")
                                    \/ (b.kind = "array" /\ fl.addr),
                           ro   |-> fl.ro])
                   : i \in 1..Len(b.list)}
      [] OTHER -> {}

\* The container is a record, handed over by pointer or by value.
IsRecord(c) ==
    \/ c.kind = "struct"
    \/ c.kind = "ptr" /\ ~c.nilp /\ c.to.kind = "struct"

\* The fields of the container the last call was made on.
CallFields ==
    IF call.op = "none" \/ ~IsRecord(before) THEN {}
    ELSE IF before.kind = "ptr"
    THEN Fields(before.to, config.to, [addr |-> TRUE, ro |-> FALSE])
    ELSE Fields(before, config, [addr |-> FALSE, ro |-> FALSE])

NoOracle == [cmp |-> 0, inplace |-> FALSE]

Has(f, key) == key \in DOMAIN f.tags

\* parse(lit) into the type of value v: [ok, v].
Parse(lit, v) == StringToValue(lit, Zero(v), NoOracle)

\* Key of f's tag is absent or parses into the type of f.
ParsesOrAbsent(f, key) == Has(f, key) => Parse(f.tags[key], f.pre).ok

IsScalar(v) == v.kind \in ScalarKinds

AtZero(v) == v.val = ZeroVal(v.kind)

DefaultCalled(reset) == call.op = "Default" /\ call.reset = reset

\* C1: a settable scalar field tagged default=D (D parsing into its type)
\* with no nil key: Default(r, false) sets it to parse(D) when it holds the
\* zero value and leaves it unchanged otherwise; Default(r, true) sets it to
\* parse(D) whatever it held.
C1_DefaultScalar ==
    \A f \in CallFields :
        (/\ call.op = "Default"
         /\ f.set /\ IsScalar(f.pre)
         /\ Has(f, DefaultKey) /\ ~Has(f, NilKey)
         /\ Parse(f.tags[DefaultKey], f.pre).ok)
        => f.post = (IF call.reset \/ AtZero(f.pre)
                     THEN Parse(f.tags[DefaultKey], f.pre).v
                     ELSE f.pre)

\* Default(r, true) replaced a non-zero value by parse(D).
C1_Witness ==
    \E f \in CallFields :
        /\ DefaultCalled(TRUE)
        /\ f.set /\ IsScalar(f.pre)
        /\ Has(f, DefaultKey) /\ ~Has(f, NilKey)
        /\ ~AtZero(f.pre)
        /\ Parse(f.tags[DefaultKey], f.pre).ok
        /\ f.post = Parse(f.tags[DefaultKey], f.pre).v
        /\ f.post # f.pre


\* A settable scalar field tagged nil=N;default=D, both parsing into its
\* type, on which Default(r, false) was called.
NilDefaulted(f) ==
    /\ DefaultCalled(FALSE)
    /\ f.set /\ IsScalar(f.pre)
    /\ Has(f, DefaultKey) /\ Has(f, NilKey)
    /\ Parse(f.tags[DefaultKey], f.pre).ok
    /\ Parse(f.tags[NilKey], f.pre).ok

\* C2: a field tagged nil=N;default=D that equals parse(N) is set to
\* parse(D) by Default(r, false), also when parse(N) is not the zero value;
\* a field holding a non-zero value other than parse(N) is left unchanged.
C2_NilLiteral ==
    \A f \in CallFields :
        NilDefaulted(f) =>
            /\ f.pre = Parse(f.tags[NilKey], f.pre).v
                => f.post = Parse(f.tags[DefaultKey], f.pre).v
            /\ (~AtZero(f.pre) /\ f.pre # Parse(f.tags[NilKey], f.pre).v)
                => f.post = f.pre

\* A field equal to a non-zero parse(N) was set to parse(D).
C2_Witness ==
    \E f \in CallFields :
        /\ NilDefaulted(f)
        /\ f.pre = Parse(f.tags[NilKey], f.pre).v
        /\ ~AtZero(f.pre)
        /\ f.post = Parse(f.tags[DefaultKey], f.pre).v
        /\ f.post # f.pre

\* A field at its zero value whose tag has a nil literal that parses to
\* another value.
ZeroUnderNil(f) ==
    /\ NilDefaulted(f)
    /\ AtZero(f.pre)
    /\ ~AtZero(Parse(f.tags[NilKey], f.pre).v)

\* C3 as stated: with a nil literal N, emptiness is decided by equality
\* with parse(N) only, so a field at its zero value with parse(N) different
\* from zero is left unchanged by Default(r, false).
C3_Original ==
    \A f \in CallFields : ZeroUnderNil(f) => f.post = f.pre

\* C3 as amended: the nil literal adds to the zero test and does not
\* replace it: a field at its zero value tagged nil=N;default=D, parse(N)
\* different from zero, is set to parse(D) by Default(r, false).
C3_ZeroStillEmpty ==
    \A f \in CallFields :
        ZeroUnderNil(f) => f.post = Parse(f.tags[DefaultKey], f.pre).v

\* A zero field under a non-zero nil literal was set to parse(D).
C3_Witness ==
    \E f \in CallFields :
        /\ ZeroUnderNil(f)
        /\ f.post = Parse(f.tags[DefaultKey], f.pre).v
        /\ f.post # f.pre

\* A value of type *T or **T, T a scalar kind.
IsOptional(v) ==
    /\ v.kind = "ptr"
    /\ \/ IsScalar(v.to)
       \/ v.to.kind = "ptr" /\ IsScalar(v.to.to)

\* Some pointer of the chain is nil.
Absent(v) == v.nilp \/ (v.to.kind = "ptr" /\ v.to.nilp)

\* The scalar the chain ends in.
Pointee(v) == IF v.to.kind = "ptr" THEN v.to.to ELSE v.to

\* C4: a settable field of type *T or **T, T a scalar kind, tagged
\* default=D (the literals of the tag parsing into T): when a pointer of the
\* chain is nil, Default(r, false) allocates the whole chain and the
\* pointee is parse(D); when the chain is present, the pointee is defaulted
\* as a scalar field is: set to parse(D) when it is zero or equals
\* parse(N), unchanged otherwise.
C4_OptionalScalar ==
    \A f \in CallFields :
        (/\ DefaultCalled(FALSE)
         /\ f.set /\ IsOptional(f.pre)
         /\ Has(f, DefaultKey)
         /\ Parse(f.tags[DefaultKey], Pointee(f.pre)).ok
         /\ Has(f, NilKey) => Parse(f.tags[NilKey], Pointee(f.pre)).ok)
        => /\ ~Absent(f.post)
           /\ Pointee(f.post) =
                IF \/ Absent(f.pre)
                   \/ AtZero(Pointee(f.pre))
                   \/ /\ Has(f, NilKey)
                      /\ Pointee(f.pre) = Parse(f.tags[NilKey], Pointee(f.pre)).v
                THEN Parse(f.tags[DefaultKey], Pointee(f.pre)).v
                ELSE Pointee(f.pre)

\* A nil **T was allocated down to a pointee holding parse(D).
C4_Witness ==
    \E f \in CallFields :
        /\ DefaultCalled(FALSE)
        /\ f.set /\ IsOptional(f.pre)
        /\ f.pre.nilp /\ f.pre.to.kind = "ptr"
        /\ Has(f, DefaultKey)
        /\ ~Absent(f.post)
        /\ Pointee(f.post) = Parse(f.tags[DefaultKey], Pointee(f.pre)).v
        /\ ~AtZero(Pointee(f.post))

LimitCalled(clamp) == call.op = "Limit" /\ call.clamp = clamp

\* The kinds Limit's documentation names as supported.
IsOrdered(v) == v.kind \in {"int", "uint", "string"}

\* a < b in the order of their type: numeric, or byte-wise for strings.
Less(a, b) ==
    IF a.kind = "string" THEN CompareStrings(a.val, b.val) < 0
    ELSE a.val < b.val

RangeOf(f) == Split(f.tags[RangeKey], ":")

\* f is a settable field of ordered scalar kind tagged range=MIN:MAX, each
\* bound omitted or parsing into the field's type.
Ranged(f) ==
    /\ f.set /\ IsOrdered(f.pre)
    /\ Has(f, RangeKey)
    /\ ~Contains(f.tags[RangeKey], ",")
    /\ Contains(f.tags[RangeKey], ":")
    /\ Len(RangeOf(f)) = 2
    /\ \A i \in 1..2 :
          RangeOf(f)[i] # <<>> => Parse(RangeOf(f)[i], f.pre).ok

HasMin(f) == RangeOf(f)[1] # <<>>
HasMax(f) == RangeOf(f)[2] # <<>>
Min(f) == Parse(RangeOf(f)[1], f.pre).v
Max(f) == Parse(RangeOf(f)[2], f.pre).v
BelowMin(f) == HasMin(f) /\ Less(f.pre, Min(f))
AboveMax(f) == HasMax(f) /\ Less(Max(f), f.pre)

\* MIN > MAX: no value satisfies both bounds.
Inverted(f) == HasMin(f) /\ HasMax(f) /\ Less(Max(f), Min(f))

\* What C5 says of one field.
Clamped(f) ==
    /\ BelowMin(f) => f.post = Min(f)
    /\ AboveMax(f) => f.post = Max(f)
    /\ (~BelowMin(f) /\ ~AboveMax(f)) => f.post = f.pre
    /\ (HasMin(f) /\ HasMax(f))
          => ~Less(f.post, Min(f)) /\ ~Less(Max(f), f.post)

\* C5 as stated: for every field of ordered scalar kind tagged
\* range=MIN:MAX, after Limit(r, true) a value below MIN is MIN, a value
\* above MAX is MAX, a value inside is unchanged, and MIN <= f <= MAX when
\* both bounds are present; an omitted bound enforces nothing.
C5_Original ==
    \A f \in CallFields : (LimitCalled(TRUE) /\ Ranged(f)) => Clamped(f)

\* C5 as amended: the same, for the ranges with MIN <= MAX or a bound
\* omitted; under a range with MIN > MAX every value ends at MAX, the
\* bound checked last.
C5_ClampToBound ==
    \A f \in CallFields :
        (LimitCalled(TRUE) /\ Ranged(f))
        => IF Inverted(f) THEN f.post = Max(f) ELSE Clamped(f)

\* A value above MAX was clamped to MAX, under a range with both bounds.
C5_Witness ==
    \E f \in CallFields :
        /\ LimitCalled(TRUE) /\ Ranged(f) /\ ~Inverted(f)
        /\ HasMin(f) /\ AboveMax(f)
        /\ f.post = Max(f) /\ f.post # f.pre

C6_WitnessZero ==
    \E f \in CallFields :
        /\ LimitCalled(FALSE) /\ Ranged(f) /\ AboveMax(f)
        /\ ~Has(f, DefaultKey)
        /\ f.post = Zero(f.pre) /\ f.post # f.pre

ChoicesOf(f) == Split(f.tags[RangeKey], ",")

\* f is a settable scalar field tagged with an enumeration, each choice
\* parsing into the field's type.
Enumerated(f) ==
    /\ f.set /\ IsScalar(f.pre)
    /\ Has(f, RangeKey)
    /\ Contains(f.tags[RangeKey], ",")
    /\ \A i \in 1..Len(ChoicesOf(f)) : Parse(ChoicesOf(f)[i], f.pre).ok

Choices(f) ==
    {Parse(ChoicesOf(f)[i], f.pre).v : i \in 1..Len(ChoicesOf(f))}

\* C7 as stated: a field tagged with an enumeration whose value equals one
\* of the choices is left unchanged by Limit, for clamp=true as well as
\* clamp=false.
C7_MatchUnchanged ==
    \A f \in CallFields :
        (call.op = "Limit" /\ Enumerated(f) /\ f.pre \in Choices(f))
        => f.post = f.pre

\* What the code does with a matching value under clamp=true: the default
\* operation with reset, so the field ends at parse(D).
C7_MatchReset ==
    \E f \in CallFields :
        /\ LimitCalled(TRUE) /\ Enumerated(f) /\ f.pre \in Choices(f)
        /\ Has(f, DefaultKey)
        /\ f.post = Parse(f.tags[DefaultKey], f.pre).v
        /\ f.post # f.pre /\ f.post \notin Choices(f)

C8_WitnessKept ==
    \E f \in CallFields :
        /\ call.op = "Limit" /\ Enumerated(f)
        /\ f.pre \notin Choices(f) /\ ~Has(f, DefaultKey)
        /\ f.post = f.pre /\ f.post # Zero(f.pre)

\* The last call was Default or Limit.
DefaultOrLimit == call.op \in {"Default", "Limit"}

\* The call was refused: InvalidParameter, no warning, nothing modified.
Refused ==
    /\ result.err = "ErrInvalidParam"
    /\ result.extras = <<>>
    /\ config = before

\* The container is a pointer to a record.
IsRecordPointer(c) == c.kind = "ptr" /\ ~c.nilp /\ c.to.kind = "struct"

\* C9 as stated: Default and Limit return InvalidParameter, record no
\* warning and modify nothing whenever the container is not a pointer to a
\* record: a nil pointer, a pointer to a non-record, and also a record
\* passed by value.
C9_Original ==
    (DefaultOrLimit /\ ~IsRecordPointer(before)) => Refused

\* C9 as amended: Default and Limit refuse a container that is not a
\* record after one pointer is followed (a nil pointer, a pointer to a
\* non-record, a non-record value).  A record passed by value is accepted:
\* the call does not return InvalidParameter, records its warnings, leaves
\* the record's own scalar fields as they are and changes what the record
\* reaches through pointers.
C9_InvalidParam ==
    DefaultOrLimit =>
        /\ ~IsRecord(before) => Refused
        /\ before.kind = "struct" =>
              /\ result.err = (IF result.extras = <<>> THEN "nil" ELSE "ErrWarning")
              /\ config.kind = "struct"
              /\ \A i \in 1..Len(before.members) :
                    IsScalar(before.members[i].v)
                       => config.members[i].v = before.members[i].v

\* A nil pointer was refused.
C9_Witness ==
    /\ DefaultOrLimit
    /\ before.kind = "ptr" /\ before.nilp
    /\ Refused

\* A record passed by value was walked: a warning was recorded and a value
\* it holds through a pointer was changed.
C9_WitnessByValue ==
    /\ DefaultOrLimit
    /\ before.kind = "struct"
    /\ result.err = "ErrWarning" /\ result.extras # <<>>
    /\ config # before

\* v is a wrapper's Value holding a pointer to a record.
HoldsRecord(v) ==
    /\ v.kind = "interface" /\ ~v.nilp
    /\ v.to.kind = "ptr" /\ ~v.to.nilp
    /\ v.to.to.kind = "struct"

IsWrapperField(f, name) == f.owner = "Interface" /\ f.name = name

\* C10: Default never changes the Type of a dynamic-type wrapper, and when
\* the wrapper's Value holds a pointer to a record, Default leaves in it
\* what Default called on that pointer leaves, whether the wrapper is a
\* field or is held through a pointer.
C10_Wrapper ==
    \A f \in CallFields :
        call.op = "Default" =>
            /\ IsWrapperField(f, "Type") => f.post = f.pre
            /\ (IsWrapperField(f, "Value") /\ HoldsRecord(f.pre))
                  => f.post.to = Default(f.pre.to, call.reset, NoOracle).config

\* The record held by the Value of wrapper w.
Held(w) == w.members[2].v.to.to

\* Default reached the records held by a wrapper that is a field and by a
\* wrapper behind a pointer, and set a zero field of each to parse(D); the
\* wrappers' Type stayed.
C10_Witness ==
    \E f, g \in CallFields :
        /\ DefaultCalled(FALSE)
        /\ f.owner = "interfaceContainer" /\ f.name = "Iface"
        /\ g.owner = "interfaceContainer" /\ g.name = "IfaceP"
        /\ HoldsRecord(f.pre.members[2].v)
        /\ ~g.pre.nilp /\ HoldsRecord(g.pre.to.members[2].v)
        /\ Held(f.pre).members[1].v = Scalar("int", 0)
        /\ Held(f.post).members[1].v = Scalar("int", 1)
        /\ Held(g.pre.to).members[1].v = Scalar("int", 0)
        /\ Held(g.post.to).members[1].v = Scalar("int", 1)
        /\ f.post.members[1].v = f.pre.members[1].v
        /\ f.pre.members[1].v # Scalar("string", <<>>)

----------------------------------------------------------------------------
(* The Interface wrapper and the type registry                              *)
(* A type is carried by the zero value of the type.  A type name is a       *)
(* sequence of tokens: "*" for each pointer, then the name of the element.  *)
(* A walk returns [v, reg, err] or [v, updated, err]; err "panic" stands    *)
(* for a run-time panic of package reflect, which ends the call.            *)

\* typeregistry.GetLongTypeName(value).
RECURSIVE GetLongTypeName(_)
GetLongTypeName(v) ==
    CASE v.kind = "ptr"    -> <<"*">> \o GetLongTypeName(v.to)
      [] v.kind = "struct" -> <<v.type>>
      [] OTHER             -> <<v.kind>>

Registered(reg, name) == \E e \in reg : e.name = name

\* registry.RegisterNamed(name, value): [reg, err].  A name that is taken
\* by the same type is a duplicate entry; a name that is taken by another
\* type is refused with an error that is no duplicate entry.
RegisterNamed(reg, name, value) ==
    IF [name |-> name, type |-> Zero(value)] \in reg
    THEN [reg |-> reg, err |-> "ErrDuplicateEntry"]
    ELSE IF Registered(reg, name)
    THEN [reg |-> reg, err |-> "ErrRegistration"]
    ELSE [reg |-> reg \cup {[name |-> name, type |-> Zero(value)]},
          err |-> "nil"]

\* registry.Register(value): the value is registered under the name of its
\* type.
Register(reg, value) == RegisterNamed(reg, GetLongTypeName(value), value)

\* RegisterType(value): [reg, err].
RegisterType(reg, value) == Register(reg, value)

\* RegisterTypeByName(name, value): [reg, err].
RegisterTypeByName(reg, name, value) == RegisterNamed(reg, name, value)

\* registry.GetType(name): [ok, type].
GetType(reg, name) ==
    IF Registered(reg, name)
    THEN [ok |-> TRUE, type |-> (CHOOSE e \in reg : e.name = name).type]
    ELSE [ok |-> FALSE, type |-> Invalid]

\* fld.Type() == interfaceType.
IsInterfaceType(v) == v.kind = "struct" /\ v.type = "Interface"

\* fld.FieldByName("Type").String() and fld.FieldByName("Value").
TypeField(w)  == w.members[1].v.val
ValueField(w) == w.members[2].v

SetTypeField(w, name) == [w EXCEPT !.members[1].v.val = name]
SetValueField(w, x)   == [w EXCEPT !.members[2].v = x]

\* The flags of root.Field(i) and of fld.Index(i).
FieldFlags(m, fl) == [addr |-> fl.addr, ro |-> fl.ro \/ ~m.exported]
IndexFlags(v, fl) ==
    [addr |-> (v.kind = "slice") \/ (v.kind = "array" /\ fl.addr), ro |-> fl.ro]

\* reflect.Indirect(e): one pointer is followed, an interface is not.
Indirect1(e) == IF e.kind = "ptr" THEN Indirect(e) ELSE e
Outer1(e, x) == IF e.kind = "ptr" THEN Outer(e, x) ELSE x
Indirect1Flags(e, fl) == IF e.kind = "ptr" THEN IndirectFlags(e, fl) ELSE fl

RegOk(v, reg)    == [v |-> v, reg |-> reg, err |-> "nil"]
RegPanic(v, reg) == [v |-> v, reg |-> reg, err |-> "panic"]

RECURSIVE registerInterfaces(_, _, _)
RECURSIVE registerFields(_, _, _)
RECURSIVE registerElems(_, _, _)

\* A variant of registerWrapper that stores the type name whatever the
\* wrapper carried.
registerWrapperOverwriting(fld, fl, reg) ==
    IF ValueField(fld).nilp THEN RegOk(fld, reg)
    ELSE IF ~CanSet(fld, fl) THEN RegPanic(fld, reg)
    ELSE RegOk(SetTypeField(fld, GetLongTypeName(ValueField(fld).to)),
               RegisterNamed(reg, GetLongTypeName(ValueField(fld).to),
                             ValueField(fld).to).reg)

\* A variant of registerWrapperNamed that returns every error of
\* RegisterNamed, the duplicate entry too.
registerWrapperNamedStrict(fld, r) ==
    IF r.err = "nil" THEN RegOk(fld, r.reg)
    ELSE [v |-> fld, reg |-> r.reg, err |-> r.err]

\* The end of registerInterfaceValue, r being what RegisterNamed returned
\* and fld the wrapper with its type name stored: a duplicate registration
\* is no error, any other error is returned.
registerWrapperNamed(fld, r) ==
    IF r.err \in {"nil", "ErrDuplicateEntry"} THEN RegOk(fld, r.reg)
    ELSE [v |-> fld, reg |-> r.reg, err |-> r.err]

\* A variant of registerWrapper that walks the record its Value points to
\* before it names the wrapper: d is what that walk returned.
registerWrapperDescended(fld, fl, d) ==
    IF d.err # "nil" THEN [v |-> fld, reg |-> d.reg, err |-> d.err]
    ELSE IF TypeField(fld) # <<>> THEN RegOk(fld, d.reg)
    ELSE IF ~CanSet(fld, fl) THEN RegPanic(fld, d.reg)
    ELSE registerWrapperNamed(
            SetTypeField(fld, GetLongTypeName(ValueField(fld).to)),
            RegisterNamed(d.reg, GetLongTypeName(ValueField(fld).to),
                          ValueField(fld).to))

registerWrapperDescending(fld, fl, reg) ==
    IF ValueField(fld).nilp THEN RegOk(fld, reg)
    ELSE IF /\ ValueField(fld).to.kind = "ptr" /\ ~ValueField(fld).to.nilp
            /\ ValueField(fld).to.to.kind = "struct"
            /\ ~IsInterfaceType(ValueField(fld).to.to)
    THEN (LET d == registerInterfaces(ValueField(fld).to.to,
                                      [addr |-> TRUE, ro |-> FALSE], reg)
          IN  registerWrapperDescended(
                  SetValueField(fld, Iface(Ptr(d.v))), fl, d))
    ELSE registerWrapperDescended(fld, fl, RegOk(fld, reg))

\* registerInterfaceValue on a wrapper: the type name is stored before the
\* registration.
registerWrapper(fld, fl, reg) ==
    IF ValueField(fld).nilp THEN RegOk(fld, reg)
    ELSE IF TypeField(fld) # <<>> THEN RegOk(fld, reg)
    ELSE IF ~CanSet(fld, fl) THEN RegPanic(fld, reg)
    ELSE registerWrapperNamed(
            SetTypeField(fld, GetLongTypeName(ValueField(fld).to)),
            RegisterNamed(reg, GetLongTypeName(ValueField(fld).to),
                          ValueField(fld).to))

registerInterfaceValue(fld, fl, reg) ==
    IF ~IsInterfaceType(fld) THEN registerInterfaces(fld, fl, reg)
    ELSE registerWrapper(fld, fl, reg)

\* The rest of a loop after one turn returned r: an error ends the loop.
registerElemsNext(r, rs) ==
    [list |-> <<r.v>> \o rs.list, reg |-> rs.reg, err |-> rs.err]

registerElemsTurn(r, rest, fl) ==
    IF r.err # "nil"
    THEN [list |-> <<r.v>> \o rest, reg |-> r.reg, err |-> r.err]
    ELSE registerElemsNext(r, registerElems(rest, fl, r.reg))

\* The loop over fld.Index(i): the elements are not indirected.
registerElems(list, fl, reg) ==
    IF list = <<>> THEN [list |-> <<>>, reg |-> reg, err |-> "nil"]
    ELSE registerElemsTurn(registerInterfaceValue(Head(list), fl, reg),
                           Tail(list), fl)

registerListDone(x, r) ==
    [v |-> [x EXCEPT !.list = r.list], reg |-> r.reg, err |-> r.err]

\* One turn of the loop of registerInterfaces, x being
\* reflect.Indirect(root.Field(i)).  Index of a map panics.
registerField(x, fl, reg) ==
    CASE x.kind \in {"array", "slice"} ->
            registerListDone(x, registerElems(x.list, IndexFlags(x, fl), reg))
      [] x.kind = "map" ->
            IF x.list = <<>> THEN RegOk(x, reg) ELSE RegPanic(x, reg)
      [] x.kind = "struct" -> registerInterfaceValue(x, fl, reg)
      [] OTHER -> RegOk(x, reg)

registerFieldsNext(m, r, rs) ==
    [list |-> <<[m EXCEPT !.v = Outer1(m.v, r.v)]>> \o rs.list,
     reg |-> rs.reg, err |-> rs.err]

registerFieldsTurn(m, r, rest, fl) ==
    IF r.err # "nil"
    THEN [list |-> <<[m EXCEPT !.v = Outer1(m.v, r.v)]>> \o rest,
          reg |-> r.reg, err |-> r.err]
    ELSE registerFieldsNext(m, r, registerFields(rest, fl, r.reg))

registerFields(members, fl, reg) ==
    IF members = <<>> THEN [list |-> <<>>, reg |-> reg, err |-> "nil"]
    ELSE registerFieldsTurn(Head(members),
            registerField(Indirect1(Head(members).v),
                          Indirect1Flags(Head(members).v,
                                         FieldFlags(Head(members), fl)),
                          reg),
            Tail(members), fl)

registerRecordDone(root, r) ==
    [v |-> [root EXCEPT !.members = r.list], reg |-> r.reg, err |-> r.err]

\* registerInterfaces: NumField of a value that is no record panics.
registerInterfaces(root, fl, reg) ==
    IF root.kind # "struct" THEN RegPanic(root, reg)
    ELSE registerRecordDone(root, registerFields(root.members, fl, reg))

\* RegisterInterfaces(config): [config, reg, err].  A nil config is
\* accepted and nothing is done.
Registering(c, r) ==
    [config |-> IF c.kind = "ptr" THEN [c EXCEPT !.to = r.v] ELSE r.v,
     reg    |-> r.reg,
     err    |-> r.err]

RegisterInterfaces(c, reg) ==
    IF c = Invalid THEN [config |-> c, reg |-> reg, err |-> "nil"]
    ELSE IF ~ValidParam(c)
    THEN [config |-> c, reg |-> reg, err |-> "ErrInvalidParam"]
    ELSE Registering(c, registerInterfaces(IF c.kind = "ptr" THEN c.to ELSE c,
                                           [addr |-> c.kind = "ptr", ro |-> FALSE],
                                           reg))

\* A variant of NewValue that makes the zero value of every type, a nil
\* pointer for a pointer type.
NewValueOfZero(nvt) == nvt

\* reflect.New(nvt.Elem()) for a pointer type, reflect.New(nvt).Elem()
\* otherwise: the zero instance of a registered type.
NewValue(nvt) ==
    IF nvt.kind = "ptr" THEN [nvt EXCEPT !.nilp = FALSE] ELSE nvt

InitOk(v, updated)    == [v |-> v, updated |-> updated, err |-> "nil"]
InitPanic(v, updated) == [v |-> v, updated |-> updated, err |-> "panic"]

RECURSIVE initializeInterfaces(_, _, _, _)
RECURSIVE initializeInterfaceField(_, _, _, _)
RECURSIVE initializeFields(_, _, _, _)
RECURSIVE initializeElems(_, _, _, _)

\* A variant of initializeWrapper that does not tell that it set a Value.
initializeWrapperUntold(fld, fl, updated, nvt) ==
    IF ~nvt.ok THEN [v |-> fld, updated |-> updated, err |-> "ErrNotFound"]
    ELSE IF ~CanSet(fld, fl) THEN InitPanic(fld, updated)
    ELSE InitOk(SetValueField(fld, [kind |-> "interface", nilp |-> FALSE,
                                    to |-> NewValue(nvt.type)]),
                updated)

\* A variant of initializeWrapper that leaves alone a Value that holds
\* something.
initializeWrapperFilling(fld, fl, updated, nvt) ==
    IF ~nvt.ok THEN [v |-> fld, updated |-> updated, err |-> "ErrNotFound"]
    ELSE IF ~ValueField(fld).nilp THEN InitOk(fld, updated)
    ELSE IF ~CanSet(fld, fl) THEN InitPanic(fld, updated)
    ELSE InitOk(SetValueField(fld, [kind |-> "interface", nilp |-> FALSE,
                                    to |-> NewValue(nvt.type)]),
                TRUE)

\* initializeInterfaceField on a wrapper, nvt being registry.GetType(tn).
initializeWrapper(fld, fl, updated, nvt) ==
    IF ~nvt.ok THEN [v |-> fld, updated |-> updated, err |-> "ErrNotFound"]
    ELSE IF ~CanSet(fld, fl) THEN InitPanic(fld, updated)
    ELSE InitOk(SetValueField(fld, [kind |-> "interface", nilp |-> FALSE,
                                    to |-> NewValue(nvt.type)]),
                TRUE)

initializePointee(fld, r) ==
    [v |-> Outer(fld, r.v), updated |-> r.updated, err |-> r.err]

\* initializeInterfaceField: pointers are followed to the end.
initializeInterfaceField(fld, fl, reg, updated) ==
    IF fld.kind = "ptr"
    THEN (IF fld.nilp THEN InitOk(fld, updated)
          ELSE initializePointee(fld,
                  initializeInterfaceField(fld.to, IndirectFlags(fld, fl),
                                           reg, updated)))
    ELSE IF fld.kind # "struct" THEN InitOk(fld, updated)
    ELSE IF ~IsInterfaceType(fld) THEN initializeInterfaces(fld, fl, reg, updated)
    ELSE IF TypeField(fld) = <<>> THEN InitOk(fld, updated)
    ELSE initializeWrapper(fld, fl, updated, GetType(reg, TypeField(fld)))

initializeElemsNext(r, rs) ==
    [list |-> <<r.v>> \o rs.list, updated |-> rs.updated, err |-> rs.err]

initializeElemsTurn(r, rest, fl, reg) ==
    IF r.err # "nil"
    THEN [list |-> <<r.v>> \o rest, updated |-> r.updated, err |-> r.err]
    ELSE initializeElemsNext(r, initializeElems(rest, fl, reg, r.updated))

\* The loops over fld.Index(i) and over the values of a map.
initializeElems(list, fl, reg, updated) ==
    IF list = <<>> THEN [list |-> <<>>, updated |-> updated, err |-> "nil"]
    ELSE initializeElemsTurn(
            initializeInterfaceField(Head(list), fl, reg, updated),
            Tail(list), fl, reg)

initializeListDone(x, r) ==
    [v |-> [x EXCEPT !.list = r.list], updated |-> r.updated, err |-> r.err]

\* One turn of the loop of initializeInterfaces, x being
\* reflect.Indirect(root.Field(i)).  The values of a map are not
\* addressable.
initializeField(x, fl, reg, updated) ==
    CASE x.kind \in {"array", "slice"} ->
            initializeListDone(x,
                initializeElems(x.list, IndexFlags(x, fl), reg, updated))
      [] x.kind = "map" ->
            initializeListDone(x,
                initializeElems(x.list, [addr |-> FALSE, ro |-> fl.ro],
                                reg, updated))
      [] x.kind = "struct" -> initializeInterfaceField(x, fl, reg, updated)
      [] OTHER -> InitOk(x, updated)

initializeFieldsNext(m, r, rs) ==
    [list |-> <<[m EXCEPT !.v = Outer1(m.v, r.v)]>> \o rs.list,
     updated |-> rs.updated, err |-> rs.err]

initializeFieldsTurn(m, r, rest, fl, reg) ==
    IF r.err # "nil"
    THEN [list |-> <<[m EXCEPT !.v = Outer1(m.v, r.v)]>> \o rest,
          updated |-> r.updated, err |-> r.err]
    ELSE initializeFieldsNext(m, r, initializeFields(rest, fl, reg, r.updated))

initializeFields(members, fl, reg, updated) ==
    IF members = <<>> THEN [list |-> <<>>, updated |-> updated, err |-> "nil"]
    ELSE initializeFieldsTurn(Head(members),
            initializeField(Indirect1(Head(members).v),
                            Indirect1Flags(Head(members).v,
                                           FieldFlags(Head(members), fl)),
                            reg, updated),
            Tail(members), fl, reg)

initializeRecordDone(root, r) ==
    [v |-> [root EXCEPT !.members = r.list],
     updated |-> r.updated, err |-> r.err]

initializeInterfaces(root, fl, reg, updated) ==
    initializeRecordDone(root, initializeFields(root.members, fl, reg, updated))

\* InitializeInterfaces(config): [config, updated, err].  The compiler
\* evaluates the call of `return updated, initializeInterfaces(v, &updated)`
\* before it reads updated, so the flag returned is the one the walk left.
Initializing(c, r) ==
    [config  |-> IF c.kind = "ptr" THEN [c EXCEPT !.to = r.v] ELSE r.v,
     updated |-> r.updated,
     err     |-> r.err]

InitializeInterfaces(c, reg) ==
    IF c = Invalid THEN [config |-> c, updated |-> FALSE, err |-> "nil"]
    ELSE IF ~ValidParam(c)
    THEN [config |-> c, updated |-> FALSE, err |-> "ErrInvalidParam"]
    ELSE Initializing(c, initializeInterfaces(IF c.kind = "ptr" THEN c.to ELSE c,
                                              [addr |-> c.kind = "ptr", ro |-> FALSE],
                                              reg, FALSE))

----------------------------------------------------------------------------
(* The JSON codec (codec/json over encoding/json)                           *)
(* A document is a tree [j |-> "null" | "number" | "string" | "bool" |     *)
(* "object" | "array" | "corrupt", ...].  What encoding/json stores in an   *)
(* empty interface is a float64 for a number and a generic map or slice    *)
(* for an object or an array: [kind |-> "float64"], [kind |-> "generic"].   *)

JNull == [j |-> "null"]

\* Bytes that are no JSON document.
Corrupt == [j |-> "corrupt"]

RECURSIVE Encode(_)
RECURSIVE EncodeMembers(_)

EncodeMembers(members) ==
    IF members = <<>> THEN <<>>
    ELSE (IF Head(members).exported
          THEN <<[name |-> Head(members).name, j |-> Encode(Head(members).v)]>>
          ELSE <<>>)
         \o EncodeMembers(Tail(members))

\* json.Marshal: a pointer and an interface are encoded as what they hold.
Encode(v) ==
    CASE v.kind \in {"int", "uint", "float64"} -> [j |-> "number", n |-> v.val]
      [] v.kind \in {"string", "text"} -> [j |-> "string", s |-> v.val]
      [] v.kind = "bool" -> [j |-> "bool", b |-> v.val]
      [] v.kind \in {"ptr", "interface"} ->
            IF v.nilp THEN JNull ELSE Encode(v.to)
      [] v.kind = "struct" ->
            [j |-> "object", members |-> EncodeMembers(v.members)]
      [] v.kind \in {"array", "slice", "map"} ->
            [j |-> "array",
             elems |-> [i \in 1..Len(v.list) |-> Encode(v.list[i])]]
      [] v.kind = "generic" -> v.j
      [] OTHER -> JNull

\* What json.Unmarshal stores in an empty interface.
Generic(j) ==
    CASE j.j = "number" -> [kind |-> "float64", val |-> j.n]
      [] j.j = "string" -> [kind |-> "string", val |-> j.s]
      [] j.j = "bool"   -> [kind |-> "bool", val |-> j.b]
      [] OTHER          -> [kind |-> "generic", j |-> j]

DecodeOk(v)   == [ok |-> TRUE, v |-> v]
DecodeFail(v) == [ok |-> FALSE, v |-> v]

RECURSIVE Decode(_, _)
RECURSIVE DecodeMembers(_, _)
RECURSIVE DecodeElems(_, _, _, _)

\* The member of an object with a name, or JNull.
Lookup(j, name) ==
    IF \E i \in 1..Len(j.members) : j.members[i].name = name
    THEN j.members[CHOOSE i \in 1..Len(j.members) : j.members[i].name = name].j
    ELSE [j |-> "absent"]

DecodeInto(v, r) == [ok |-> r.ok, v |-> [v EXCEPT !.nilp = FALSE, !.to = r.v]]

DecodeMembersNext(m, r, rs) ==
    [ok |-> r.ok /\ rs.ok, list |-> <<[m EXCEPT !.v = r.v]>> \o rs.list]

\* The fields of a record: a field without a member in the object, and an
\* unexported field, are left as they are.
DecodeMembers(j, members) ==
    IF members = <<>> THEN [ok |-> TRUE, list |-> <<>>]
    ELSE DecodeMembersNext(Head(members),
            IF Head(members).exported /\ Lookup(j, Head(members).name).j # "absent"
            THEN Decode(Lookup(j, Head(members).name), Head(members).v)
            ELSE DecodeOk(Head(members).v),
            DecodeMembers(j, Tail(members)))

DecodeElemsNext(r, rs) == [ok |-> r.ok /\ rs.ok, list |-> <<r.v>> \o rs.list]

\* The values the elements of document j are decoded into.  A slice is
\* given the length of the document: the elements it has are decoded into
\* as they are, the others start from the zero value of the element type.
\* Every value of a map starts from that zero value.  An array keeps its
\* length.
Slots(j, v) ==
    CASE v.kind = "slice" ->
            [i \in 1..Len(j.elems) |->
                IF i <= Len(v.list) THEN v.list[i] ELSE v.elem]
      [] v.kind = "map" ->
            [i \in 1..(IF Len(j.elems) > Len(v.list)
                       THEN Len(j.elems) ELSE Len(v.list)) |->
                IF i <= Len(j.elems) THEN v.elem ELSE v.list[i]]
      [] OTHER -> v.list

\* The elements of a sequence: an element of an array without a
\* counterpart in the document is set to zero.
DecodeElems(j, kind, slots, i) ==
    IF slots = <<>> THEN [ok |-> TRUE, list |-> <<>>]
    ELSE DecodeElemsNext(
            IF i <= Len(j.elems) THEN Decode(j.elems[i], Head(slots))
            ELSE DecodeOk(IF kind = "array" THEN Zero(Head(slots))
                          ELSE Head(slots)),
            DecodeElems(j, kind, Tail(slots), i + 1))

DecodeRecord(v, r) == [ok |-> r.ok, v |-> [v EXCEPT !.members = r.list]]
DecodeList(v, r)   == [ok |-> r.ok, v |-> [v EXCEPT !.list = r.list]]

\* json.Unmarshal of document j into v.  null sets a pointer, an
\* interface, a slice and a map to nil and changes nothing else.  An
\* interface that holds a non-nil pointer is decoded into the pointee; any
\* other interface is overwritten by the generic value of the document.
Decode(j, v) ==
    IF j.j = "null"
    THEN DecodeOk(IF v.kind \in {"ptr", "interface", "slice", "map"}
                  THEN Zero(v) ELSE v)
    ELSE CASE v.kind \in {"int", "uint"} ->
                IF j.j = "number" THEN DecodeOk([v EXCEPT !.val = j.n])
                ELSE DecodeFail(v)
           [] v.kind \in {"string", "text"} ->
                IF j.j = "string" THEN DecodeOk([v EXCEPT !.val = j.s])
                ELSE DecodeFail(v)
           [] v.kind = "bool" ->
                IF j.j = "bool" THEN DecodeOk([v EXCEPT !.val = j.b])
                ELSE DecodeFail(v)
           [] v.kind = "ptr" -> DecodeInto(v, Decode(j, v.to))
           [] v.kind = "interface" ->
                IF ~v.nilp /\ v.to.kind = "ptr" /\ ~v.to.nilp
                THEN DecodeInto(v, Decode(j, v.to))
                ELSE DecodeOk([kind |-> "interface", nilp |-> FALSE,
                               to |-> Generic(j)])
           [] v.kind = "struct" ->
                IF j.j = "object"
                THEN DecodeRecord(v, DecodeMembers(j, v.members))
                ELSE DecodeFail(v)
           [] v.kind \in {"array", "slice", "map"} ->
                IF j.j = "array"
                THEN DecodeList(v, DecodeElems(j, v.kind, Slots(j, v), 1))
                ELSE DecodeFail(v)
           [] OTHER -> DecodeFail(v)

\* Codec.Encode and Codec.Decode of the JSON codec.  Unmarshal needs a
\* non-nil pointer and a well-formed document.
JSONEncode(c) == Encode(c)

JSONDecode(data, c) ==
    IF data.j = "corrupt" \/ c.kind # "ptr" \/ c.nilp THEN DecodeFail(c)
    ELSE DecodeInto(c, Decode(data, c.to))

\* The extensions a codec is registered for.
Codecs == {"json"}

----------------------------------------------------------------------------
(* WriteConfigFile, ReadConfigFile and Dir.LoadConfig                       *)
(* A call that reads returns [config, err, steps]: steps is the sequence of *)
(* the steps it took, in the order the code takes them.                     *)

\* WriteConfigFile(filename, config), file being what the name denotes and
\* ext its extension: [config, reg, file, err].
Written(r, file, ext) ==
    IF r.err # "nil"
    THEN [config |-> r.config, reg |-> r.reg, file |-> file, err |-> r.err]
    ELSE IF ext \notin Codecs
    THEN [config |-> r.config, reg |-> r.reg, file |-> file,
          err |-> "ErrCodecNotRegistered"]
    ELSE [config |-> r.config, reg |-> r.reg,
          file |-> [exists |-> TRUE, data |-> JSONEncode(r.config)],
          err |-> "nil"]

WriteConfigFile(c, reg, file, ext) ==
    Written(RegisterInterfaces(c, reg), file, ext)

DecodeStep(data) == [step |-> "decode", data |-> data]
InitStep(i)      == [step |-> "init", ret |-> i.updated, err |-> i.err]

\* The second decode of ReadConfigFile, d being what it returned.
ReadReloaded(data, i, d) ==
    [config |-> d.v,
     err    |-> IF d.ok THEN "nil" ELSE "DecodeError",
     steps  |-> <<DecodeStep(data), InitStep(i), DecodeStep(data)>>]

\* A variant of ReadInitialized that decodes again whatever
\* InitializeInterfaces returned.
ReadInitializedAlways(data, i) ==
    ReadReloaded(data, i, JSONDecode(data, i.config))

\* ReadConfigFile after InitializeInterfaces returned i.
ReadInitialized(data, i) ==
    IF i.err # "nil" \/ ~i.updated
    THEN [config |-> i.config, err |-> i.err,
          steps  |-> <<DecodeStep(data), InitStep(i)>>]
    ELSE ReadReloaded(data, i, JSONDecode(data, i.config))

\* ReadConfigFile after the first decode returned d.
ReadDecoded(reg, data, d) ==
    IF ~d.ok
    THEN [config |-> d.v, err |-> "DecodeError", steps |-> <<DecodeStep(data)>>]
    ELSE ReadInitialized(data, InitializeInterfaces(d.v, reg))

ReadConfigFile(c, reg, file, ext) ==
    IF ext \notin Codecs
    THEN [config |-> c, err |-> "ErrCodecNotRegistered", steps |-> <<>>]
    ELSE IF ~file.exists
    THEN [config |-> c, err |-> "ErrNotExist", steps |-> <<>>]
    ELSE ReadDecoded(reg, file.data, JSONDecode(file.data, c))

\* runtime.GOOS, as far as the paths depend on it.
Systems == {"windows", "linux", "js"}

\* LoadProgramConfig, LoadUserConfig and LoadSystemConfig.
LoadDir(dir, c, reg, dsk, goos, ext) ==
    IF dir = "program" /\ goos # "windows"
    THEN [config |-> c, err |-> "ErrProgramDirNotSupported", steps |-> <<>>]
    ELSE IF dir # "program" /\ goos = "js"
    THEN [config |-> c, err |-> "ErrUnsupportedOS", steps |-> <<>>]
    ELSE ReadConfigFile(c, reg, dsk[dir], ext)

\* The errors LoadConfig passes over after reading a location.
Skipped(dir, err) ==
    \/ err = "ErrNotExist"
    \/ dir = "program" /\ err = "ErrProgramDirNotSupported"

RECURSIVE LoadEach(_, _, _, _, _, _)

Loading(r, dir) == [dir |-> dir, err |-> r.err, steps |-> r.steps]

LoadEachNext(r, dir, rs) ==
    [config |-> rs.config, err |-> rs.err,
     loaded |-> (r.err = "nil") \/ rs.loaded,
     reads  |-> <<Loading(r, dir)>> \o rs.reads]

LoadEachTurn(r, dir, rest, reg, dsk, goos, ext) ==
    IF r.err # "nil" /\ ~Skipped(dir, r.err)
    THEN [config |-> r.config, err |-> r.err, loaded |-> FALSE,
          reads  |-> <<Loading(r, dir)>>]
    ELSE LoadEachNext(r, dir, LoadEach(rest, r.config, reg, dsk, goos, ext))

\* The locations of order read one after the other into the same out: a
\* location that was read does not end the sequence.
LoadEach(order, c, reg, dsk, goos, ext) ==
    IF order = <<>>
    THEN [config |-> c, err |-> "nil", loaded |-> FALSE, reads |-> <<>>]
    ELSE LoadEachTurn(LoadDir(Head(order), c, reg, dsk, goos, ext),
                      Head(order), Tail(order), reg, dsk, goos, ext)

\* Dir.LoadConfig(name, override, out): [config, err, steps], steps being
\* the locations tried with what reading each returned.
Loaded(r, override) ==
    [config |-> r.config,
     err    |-> IF r.err = "nil" /\ override /\ ~r.loaded
                THEN "ErrNoConfigLoaded" ELSE r.err,
     steps  |-> r.reads]

LoadConfig(c, reg, dsk, goos, override, ext) ==
    Loaded(LoadEach(IF override THEN <<"system", "user", "program">>
                    ELSE <<"program", "user", "system">>,
                    c, reg, dsk, goos, ext),
           override)

----------------------------------------------------------------------------
(* The containers of the Interface tests, and the calls made on them        *)

\* A sequence that carries the zero value of its element type.
ListOf(k, l, e) == [kind |-> k, list |-> l, elem |-> Zero(e)]

\* The tests' Child{Age int}.
Data(n) == Struct("Data", <<Member("Age", TRUE, NoTag, Scalar("int", n))>>)

\* What the tests store in Value: nothing, a plain scalar, a pointer to a
\* scalar, a pointer to a record, and a record by value.
Payloads ==
    {NilIface,
     Iface(Scalar("int", 7)),
     Iface(Ptr(Scalar("int", 7))),
     Iface(Ptr(Data(42))),
     Iface(Data(42))}

\* The type names a wrapper can carry before a call: none, the name of the
\* type of its Value, or the name of another type.
TypeNames(val) ==
    {<<>>, <<"*", "int">>}
    \cup (IF val.nilp THEN {} ELSE {GetLongTypeName(val.to)})

TestWrappers ==
    UNION {{Interface(t, val) : t \in TypeNames(val)} : val \in Payloads}

Inner(w) == Struct("Inner", <<Member("W", TRUE, NoTag, w)>>)

\* The places a record can hold wrapper w in: a field, a pointer, a pointer
\* to a pointer, the elements of a sequence or the values of a map, and a
\* record nested by value or by pointer.
Holders(w) ==
    {w, Ptr(w), Ptr(Ptr(w)), NilPtr(w),
     ListOf("slice", <<w>>, w),
     ListOf("array", <<w>>, w),
     ListOf("map", <<w>>, w),
     ListOf("slice", <<Ptr(w)>>, NilPtr(w)),
     ListOf("slice", <<Inner(w)>>, Inner(w)),
     Inner(w),
     Ptr(Inner(w))}

\* The second wrapper of the record: one that holds nothing, one that
\* holds a pointer, and one that names a type nothing registers.
Siblings ==
    {Interface(<<>>, NilIface),
     Interface(<<>>, Iface(Ptr(Scalar("int", 7)))),
     Interface(<<"uint">>, NilIface)}

Root(h, sib) ==
    Struct("Root",
        <<Member("Name", TRUE, NoTag, Scalar("string", <<"x">>)),
          Member("H", TRUE, NoTag, h),
          Member("I", TRUE, NoTag, sib)>>)

\* Wrappers whose Value is a pointer to a record that holds a wrapper of
\* its own, with and without a name.
NestedWrappers ==
    {Interface(t, Iface(Ptr(Inner(Interface(n, Iface(Scalar("int", 7))))))) :
        t \in {<<>>, <<"*", "Inner">>}, n \in {<<>>, <<"int">>}}

Roots ==
    UNION {{Root(h, sib) : h \in Holders(w), sib \in Siblings} : w \in TestWrappers}
    \cup {Root(ListOf("slice", <<Scalar("int", 7)>>, Scalar("int", 0)), sib) :
            sib \in Siblings}
    \cup UNION {{Root(w, Interface(<<>>, NilIface)),
                 Root(Ptr(w), Interface(<<>>, NilIface))} : w \in NestedWrappers}

\* What a caller can hand to RegisterInterfaces, InitializeInterfaces,
\* WriteConfigFile and ReadConfigFile.
Configs ==
    {Ptr(r) : r \in Roots}
    \cup {Root(h, Interface(<<>>, NilIface)) :
            h \in UNION {{w, Ptr(w)} : w \in TestWrappers}}
    \cup {Invalid,
          NilPtr(Root(Interface(<<>>, NilIface), Interface(<<>>, NilIface))),
          Ptr(Scalar("int", 0))}

\* The container a caller builds to read into, after the one it saved:
\* with keep, the tests' `in` (every wrapper keeps its Type and holds
\* nothing); without, as &Root{}.
RECURSIVE Blank(_)
Blank(v) ==
    CASE IsInterfaceType(v) -> Interface(TypeField(v), NilIface)
      [] v.kind = "struct" ->
            [v EXCEPT !.members =
                [i \in 1..Len(v.members) |->
                    [v.members[i] EXCEPT !.v = Blank(v.members[i].v)]]]
      [] v.kind = "ptr" /\ ~v.nilp -> [v EXCEPT !.to = Blank(v.to)]
      [] v.kind \in {"array", "slice", "map"} ->
            [v EXCEPT !.list = [i \in 1..Len(v.list) |-> Blank(v.list[i])]]
      [] OTHER -> Zero(v)

Fresh(c) ==
    IF c.kind = "ptr" /\ ~c.nilp THEN [c EXCEPT !.to = Zero(c.to)] ELSE Zero(c)

\* The extensions of the file names the calls are made with.
Exts == {"json", "toml"}

NoResult == [err |-> "nil", extras |-> <<>>, ret |-> FALSE]

InitInterface ==
    /\ config \in Configs
    /\ before = config
    /\ call = NoCall
    /\ result = NoResult
    /\ ncalls = 0
    /\ registry = {}
    /\ disk = NoFiles
    /\ saved = Invalid

Called(op) == [op |-> op, reset |-> FALSE, clamp |-> FALSE]

CallRegisterInterfaces ==
    /\ ncalls < MaxCalls
    /\ LET r == RegisterInterfaces(config, registry)
       IN  /\ before' = config
           /\ config' = r.config
           /\ registry' = r.reg
           /\ result' = [err |-> r.err, extras |-> <<>>, ret |-> FALSE]
           /\ saved' = IF r.err = "nil" THEN r.config ELSE saved
    /\ call' = Called("RegisterInterfaces")
    /\ ncalls' = ncalls + 1
    /\ UNCHANGED disk

CallInitializeInterfaces ==
    /\ ncalls < MaxCalls
    /\ LET r == InitializeInterfaces(config, registry)
       IN  /\ before' = config
           /\ config' = r.config
           /\ result' = [err |-> r.err, extras |-> <<>>, ret |-> r.updated]
    /\ call' = Called("InitializeInterfaces")
    /\ ncalls' = ncalls + 1
    /\ UNCHANGED <<registry, disk, saved>>

CallWriteConfigFile ==
    /\ ncalls < MaxCalls
    /\ \E ext \in Exts :
          LET r == WriteConfigFile(config, registry, disk["user"], ext)
          IN  /\ before' = config
              /\ config' = r.config
              /\ registry' = r.reg
              /\ disk' = [disk EXCEPT !["user"] = r.file]
              /\ result' = [err |-> r.err, extras |-> <<>>, ret |-> FALSE]
              /\ saved' = IF r.err = "nil" THEN r.config ELSE saved
    /\ call' = Called("WriteConfigFile")
    /\ ncalls' = ncalls + 1

CallReadConfigFile ==
    /\ ncalls < MaxCalls
    /\ \E ext \in Exts :
          LET r == ReadConfigFile(config, registry, disk["user"], ext)
          IN  /\ before' = config
              /\ config' = r.config
              /\ result' = [err |-> r.err, extras |-> r.steps, ret |-> FALSE]
    /\ call' = Called("ReadConfigFile")
    /\ ncalls' = ncalls + 1
    /\ UNCHANGED <<registry, disk, saved>>

\* The caller replaces the container it saved by a new one to read into.
NewContainer ==
    /\ call.op \in {"RegisterInterfaces", "WriteConfigFile"}
    /\ result.err = "nil"
    /\ \E keep \in BOOLEAN :
          config' = IF keep THEN Blank(config) ELSE Fresh(config)
    /\ before' = config
    /\ call' = Called("new")
    /\ UNCHANGED <<result, ncalls, registry, disk, saved>>

NextInterface ==
    \/ CallRegisterInterfaces
    \/ CallInitializeInterfaces
    \/ CallWriteConfigFile
    \/ CallReadConfigFile
    \/ NewContainer

SpecInterface == InitInterface /\ [][NextInterface]_vars

----------------------------------------------------------------------------
(* What the claims about the wrapper speak of: the wrappers of a container, *)
(* each named by the path that leads to it.  A step of a path is            *)
(* [s |-> "field" | "ptr" | "slice" | "array" | "map", i |-> index].        *)

Step(kind, i) == [s |-> kind, i |-> i]

RECURSIVE WrapperPaths(_)
WrapperPaths(v) ==
    CASE IsInterfaceType(v) -> {<<>>}
      [] v.kind = "struct" ->
            UNION {{<<Step("field", i)>> \o p : p \in WrapperPaths(v.members[i].v)} :
                      i \in 1..Len(v.members)}
      [] v.kind = "ptr" /\ ~v.nilp ->
            {<<Step("ptr", 1)>> \o p : p \in WrapperPaths(v.to)}
      [] v.kind \in {"array", "slice", "map"} ->
            UNION {{<<Step(v.kind, i)>> \o p : p \in WrapperPaths(v.list[i])} :
                      i \in 1..Len(v.list)}
      [] OTHER -> {}

\* The value a path leads to in v, Invalid when v has no such place.
RECURSIVE At(_, _)
At(v, path) ==
    IF path = <<>> THEN v
    ELSE CASE Head(path).s = "field" /\ v.kind = "struct"
                /\ Head(path).i <= Len(v.members) ->
                    At(v.members[Head(path).i].v, Tail(path))
           [] Head(path).s = "ptr" /\ v.kind = "ptr" /\ ~v.nilp ->
                    At(v.to, Tail(path))
           [] Head(path).s = v.kind /\ v.kind \in {"array", "slice", "map"}
                /\ Head(path).i <= Len(v.list) ->
                    At(v.list[Head(path).i], Tail(path))
           [] OTHER -> Invalid

IsWrapper(v) == v # Invalid /\ IsInterfaceType(v)

\* The wrapper holds a value, and the name and the type of what it holds.
Holds(w)    == ~ValueField(w).nilp
NameOf(w)   == GetLongTypeName(ValueField(w).to)
TypeOf(w)   == Zero(ValueField(w).to)

RegisterReturnedNil ==
    call.op = "RegisterInterfaces" /\ result.err = "nil" /\ before # Invalid

\* C11 (as stated): after RegisterInterfaces returned nil, every wrapper of
\* the container, behind record fields, pointers, sequence elements and
\* map values at any depth, that holds a value and had an empty TypeName
\* carries the name of the type of its Value, and that name is registered.
C11_Original ==
    RegisterReturnedNil =>
        \A p \in WrapperPaths(before) :
            (Holds(At(before, p)) /\ TypeField(At(before, p)) = <<>>) =>
                /\ IsWrapper(At(config, p))
                /\ TypeField(At(config, p)) = NameOf(At(before, p))
                /\ Registered(registry, NameOf(At(before, p)))

\* The type names of the wrappers of b are those of the same wrappers of a.
SameTypeNames(b, a) ==
    \A p \in WrapperPaths(b) :
        IsWrapper(At(a, p)) /\ TypeField(At(a, p)) = TypeField(At(b, p))

C13_Original ==
    (call.op \in {"RegisterInterfaces", "WriteConfigFile"} /\ result.err = "nil"
     /\ before # Invalid) =>
        \A p \in WrapperPaths(before) :
            (Holds(At(before, p)) /\ TypeField(At(before, p)) # <<>>) =>
                /\ IsWrapper(At(config, p))
                /\ Holds(At(config, p))
                /\ TypeField(At(config, p)) = NameOf(At(config, p))

\* The zero instance of type t: a pointer to a zero pointee for a pointer
\* type, the zero value otherwise.
ZeroInstance(t) ==
    IF t.kind = "ptr" THEN Ptr(Zero(t.to)) ELSE Zero(t)

\* The type registered under a name.
TypeNamed(name) == (CHOOSE e \in registry : e.name = name).type

\* The wrapper at path p carried a registered TypeName before the call and
\* holds the zero instance of the type of that name after it.
Reconstructed(p) ==
    /\ TypeField(At(before, p)) # <<>>
    /\ Registered(registry, TypeField(At(before, p)))
    /\ IsWrapper(At(config, p))
    /\ ValueField(At(config, p)) =
          Iface(ZeroInstance(TypeNamed(TypeField(At(before, p)))))

InitializeReturned ==
    call.op = "InitializeInterfaces" /\ result.err # "panic"

\* C14: InitializeInterfaces returns true exactly when it reconstructed the
\* Value of at least one wrapper with a TypeName; it returns false for a
\* container without wrappers or with empty TypeNames only.
C14_Updated ==
    InitializeReturned =>
        /\ result.ret <=> \E p \in WrapperPaths(before) : Reconstructed(p)
        /\ (\A p \in WrapperPaths(before) : TypeField(At(before, p)) = <<>>)
              => ~result.ret

\* The call reconstructed one wrapper and passed another, whose TypeName
\* was empty, and returned true.
C14_Witness ==
    /\ InitializeReturned
    /\ result.err = "nil"
    /\ result.ret
    /\ \E p \in WrapperPaths(before) :
          Reconstructed(p) /\ At(before, p) # At(config, p)
    /\ \E p \in WrapperPaths(before) :
          TypeField(At(before, p)) = <<>> /\ At(before, p) = At(config, p)

\* The call found wrappers with empty TypeNames only and returned false.
C14_WitnessFalse ==
    /\ InitializeReturned
    /\ result.err = "nil"
    /\ ~result.ret
    /\ before = config
    /\ WrapperPaths(before) # {}
    /\ \A p \in WrapperPaths(before) : TypeField(At(before, p)) = <<>>

\* The wrapper at path p is a field of a record, or is held by one pointer
\* that is a field of a record: no sequence, no map and no pointer to a
\* pointer lies on the way.
DirectOrPointer(p) ==
    /\ \A i \in 1..Len(p) : p[i].s \in {"field", "ptr"}
    /\ \A i \in 1..(Len(p) - 1) : ~(p[i].s = "ptr" /\ p[i + 1].s = "ptr")

\* RegisterInterfaces named the type of the wrapper at path p of the saved
\* container and registered it.
NamedByRegister(p) ==
    /\ Holds(At(saved, p))
    /\ TypeField(At(saved, p)) = NameOf(At(saved, p))
    /\ Registered(registry, NameOf(At(saved, p)))

InitializedBlank ==
    /\ call.op = "InitializeInterfaces"
    /\ result.err = "nil"
    /\ saved # Invalid
    /\ before = Blank(saved)

\* C15: when a wrapper that holds nothing carries a TypeName that
\* RegisterInterfaces produced from a value of type T, InitializeInterfaces
\* sets its Value to the zero instance of T, a non-nil pointer to a zero
\* pointee when T is a pointer type and the zero value otherwise; so for a
\* wrapper that is a field and for one a field points to.
C15_ZeroInstance ==
    InitializedBlank =>
        \A p \in WrapperPaths(saved) :
            (DirectOrPointer(p) /\ NamedByRegister(p)) =>
                /\ IsWrapper(At(config, p))
                /\ TypeField(At(config, p)) = NameOf(At(saved, p))
                /\ ValueField(At(config, p)) =
                      Iface(ZeroInstance(TypeOf(At(saved, p))))

\* A wrapper behind a pointer whose type is a pointer to a record, next to
\* a wrapper held as a field.
C15_Witness ==
    /\ InitializedBlank
    /\ \E p \in WrapperPaths(saved) :
          /\ DirectOrPointer(p) /\ NamedByRegister(p)
          /\ p[Len(p)].s = "ptr"
          /\ ValueField(At(saved, p)) = Iface(Ptr(Data(42)))
          /\ ValueField(At(before, p)) = NilIface
          /\ ValueField(At(config, p)) = Iface(Ptr(Data(0)))
    /\ \E p \in WrapperPaths(saved) :
          /\ DirectOrPointer(p) /\ NamedByRegister(p)
          /\ p[Len(p)].s = "field"
          /\ ValueField(At(config, p)) = Iface(Ptr(Scalar("int", 0)))

\* A wrapper whose type is no pointer: a scalar and a record by value.
C15_WitnessValue ==
    /\ InitializedBlank
    /\ \E p \in WrapperPaths(saved) :
          /\ DirectOrPointer(p) /\ NamedByRegister(p)
          /\ ValueField(At(saved, p)) \in {Iface(Scalar("int", 7)), Iface(Data(42))}
          /\ ValueField(At(config, p)) \in {Iface(Scalar("int", 0)), Iface(Data(0))}

\* The last call read, into a container built as &Root{}, the file that
\* WriteConfigFile wrote from the saved container.
ReadBack ==
    /\ call.op = "ReadConfigFile"
    /\ result.err = "nil"
    /\ saved # Invalid
    /\ before = Fresh(saved)
    /\ disk["user"].exists
    /\ disk["user"].data = JSONEncode(saved)

\* The values the claim names: a pointer to a record, a plain scalar and a
\* pointer to a scalar.
IsPointerPayload(x) == ~x.nilp /\ x.to.kind = "ptr"
IsScalarPayload(x)  == ~x.nilp /\ x.to.kind \in ScalarKinds

\* C16 (as stated): a container written by WriteConfigFile and read by
\* ReadConfigFile into a new container has, in every wrapper whose type
\* RegisterInterfaces named, a Value of the type and with the content it
\* had when written; so for a pointer to a record, for a plain scalar and
\* for a pointer to a scalar.
C16_Original ==
    ReadBack =>
        \A p \in WrapperPaths(saved) :
            (/\ DirectOrPointer(p)
             /\ NamedByRegister(p)
             /\ \/ IsPointerPayload(ValueField(At(saved, p)))
                \/ IsScalarPayload(ValueField(At(saved, p)))) =>
                /\ IsWrapper(At(config, p))
                /\ ValueField(At(config, p)) = ValueField(At(saved, p))

\* C16, for the values that are pointers: the round trip gives back a
\* pointer of the same type to an equal pointee.
C16_PointerRoundTrip ==
    ReadBack =>
        \A p \in WrapperPaths(saved) :
            (/\ DirectOrPointer(p)
             /\ NamedByRegister(p)
             /\ IsPointerPayload(ValueField(At(saved, p)))) =>
                /\ IsWrapper(At(config, p))
                /\ ValueField(At(config, p)) = ValueField(At(saved, p))

\* A pointer to a record came back through a wrapper that is a field.
C16_Witness ==
    /\ ReadBack
    /\ \E p \in WrapperPaths(saved) :
          /\ DirectOrPointer(p) /\ NamedByRegister(p)
          /\ ValueField(At(saved, p)) = Iface(Ptr(Data(42)))
          /\ IsWrapper(At(before, p))
          /\ ValueField(At(before, p)) = NilIface
          /\ IsWrapper(At(config, p))
          /\ ValueField(At(config, p)) = Iface(Ptr(Data(42)))

\* The steps the last call of ReadConfigFile took, in their order.
ReadSteps == result.extras

\* C17: ReadConfigFile decodes the bytes of the file, then calls
\* InitializeInterfaces, then decodes the same bytes a second time; the
\* second decoding takes place exactly when InitializeInterfaces returned
\* true and no error, and never before that call.
C17_StepOrder ==
    call.op = "ReadConfigFile" =>
        /\ Len(ReadSteps) <= 3
        /\ Len(ReadSteps) >= 1 =>
              /\ ReadSteps[1] = DecodeStep(disk["user"].data)
              /\ Len(ReadSteps) = 1 => result.err = "DecodeError"
        /\ Len(ReadSteps) >= 2 => ReadSteps[2].step = "init"
        /\ Len(ReadSteps) = 3 <=>
              /\ Len(ReadSteps) >= 2
              /\ ReadSteps[2].ret
              /\ ReadSteps[2].err = "nil"
        /\ Len(ReadSteps) = 3 => ReadSteps[3] = ReadSteps[1]

\* A read that decoded, reconstructed a Value and decoded again.
C17_Witness ==
    /\ call.op = "ReadConfigFile"
    /\ result.err = "nil"
    /\ Len(ReadSteps) = 3
    /\ ReadSteps[2] = [step |-> "init", ret |-> TRUE, err |-> "nil"]
    /\ ReadSteps[3] = DecodeStep(disk["user"].data)
    /\ config # before

\* A read that decoded once: InitializeInterfaces returned false.
C17_WitnessOnce ==
    /\ call.op = "ReadConfigFile"
    /\ result.err = "nil"
    /\ Len(ReadSteps) = 2
    /\ ReadSteps[2] = [step |-> "init", ret |-> FALSE, err |-> "nil"]

\* A read that did not decode again: InitializeInterfaces returned an error
\* after it had reconstructed a Value.
C17_WitnessError ==
    /\ call.op = "ReadConfigFile"
    /\ Len(ReadSteps) = 2
    /\ ReadSteps[2].ret
    /\ ReadSteps[2].err # "nil"

----------------------------------------------------------------------------
(* Dir.LoadConfig: the files of the three locations and the calls           *)

NoWrapper == Interface(<<>>, NilIface)

\* The record of the tests with a name of its own.
Named(n) ==
    Struct("Root",
        <<Member("Name", TRUE, NoTag, Scalar("string", n)),
          Member("H", TRUE, NoTag, NoWrapper),
          Member("I", TRUE, NoTag, NoWrapper)>>)

\* The letter that tells the file of a location from the others.
Letter(dir) ==
    CASE dir = "program" -> <<"p">> [] dir = "user" -> <<"u">> [] OTHER -> <<"s">>

\* What a location can hold under the name asked for: nothing, a file
\* saved from a record named after the location, or bytes that are no
\* document.
FilesOf(dir) ==
    {NoFile,
     [exists |-> TRUE, data |-> JSONEncode(Ptr(Named(Letter(dir))))],
     [exists |-> TRUE, data |-> Corrupt]}

Disks == {d \in [Dirs -> UNION {FilesOf(x) : x \in Dirs}] :
             \A x \in Dirs : d[x] \in FilesOf(x)}

\* What a caller hands to LoadConfig as out.
Outs == {Ptr(Named(<<>>)), Named(<<>>), Invalid}

InitDir ==
    /\ config \in Outs
    /\ before = config
    /\ call = NoCall
    /\ result = NoResult
    /\ ncalls = 0
    /\ registry = {}
    /\ disk \in Disks
    /\ saved = Invalid

CallLoadConfig ==
    /\ ncalls < MaxCalls
    /\ \E override \in BOOLEAN, goos \in Systems, ext \in Exts :
          LET r == LoadConfig(config, registry, disk, goos, override, ext)
          IN  /\ before' = config
              /\ config' = r.config
              /\ result' = [err |-> r.err, extras |-> r.steps, ret |-> FALSE]
              /\ call' = [op |-> "LoadConfig", override |-> override,
                          goos |-> goos, ext |-> ext]
    /\ ncalls' = ncalls + 1
    /\ UNCHANGED <<registry, disk, saved>>

\* LoadProgramConfig, LoadUserConfig or LoadSystemConfig called directly.
CallLoadDir ==
    /\ ncalls < MaxCalls
    /\ \E dir \in Dirs, goos \in Systems, ext \in Exts :
          LET r == LoadDir(dir, config, registry, disk, goos, ext)
          IN  /\ before' = config
              /\ config' = r.config
              /\ result' = [err |-> r.err, extras |-> <<Loading(r, dir)>>,
                            ret |-> FALSE]
              /\ call' = [op |-> "Load", override |-> FALSE,
                          goos |-> goos, ext |-> ext]
    /\ ncalls' = ncalls + 1
    /\ UNCHANGED <<registry, disk, saved>>

NextDir == CallLoadConfig \/ CallLoadDir

SpecDir == InitDir /\ [][NextDir]_vars

\* The locations the last call read a file from without an error.
LoadedFrom == {i \in 1..Len(result.extras) : result.extras[i].err = "nil"}

\* The first location in the order program, user, system that holds a
\* file the call can read on system goos.
Readable(dir, goos) ==
    /\ disk[dir].exists
    /\ IF dir = "program" THEN goos = "windows" ELSE goos # "js"

\* C18 (as stated): LoadConfig without override loads one file only, the
\* first it finds in the order program, user, system.
C18_Original ==
    (call.op = "LoadConfig" /\ ~call.override) =>
        /\ Cardinality(LoadedFrom) <= 1
        /\ \A i \in LoadedFrom :
              \A j \in 1..(i - 1) :
                  ~Readable(result.extras[j].dir, call.goos)

----------------------------------------------------------------------------
(* Default on text-unmarshalable leaves and on literals that do not parse   *)

\* The last call recorded warning e for the field called name.
Warned(e, name) ==
    \E i \in 1..Len(result.extras) : result.extras[i] = Warn(e, name)

\* A settable leaf whose type implements encoding.TextUnmarshaler, tagged
\* with a default literal that the leaf's UnmarshalText rejects: whether
\* the literal was handed to UnmarshalText shows in the warning.
RejectingText(f) ==
    /\ call.op = "Default"
    /\ f.set /\ ImplementsTextUnmarshaler(f.pre)
    /\ Has(f, DefaultKey)
    /\ ~UnmarshalText(f.tags[DefaultKey], f.pre).ok

C19_WitnessKept ==
    \E f \in CallFields :
        /\ RejectingText(f)
        /\ ~call.reset /\ ~IsZero(f.pre) /\ ~Has(f, NilKey)
        /\ ~Warned("ErrInvalidDefault", f.name)
        /\ result.extras # <<>>

\* A settable scalar field of a record of one field, with a default
\* literal, whose default or nil literal does not parse into its type.
Malformed(f) ==
    /\ call.op = "Default"
    /\ f.owner = "Example"
    /\ f.set /\ IsScalar(f.pre)
    /\ Has(f, DefaultKey)
    /\ \/ ~Parse(f.tags[DefaultKey], f.pre).ok
       \/ Has(f, NilKey) /\ ~Parse(f.tags[NilKey], f.pre).ok

\* C20 (as stated, for a record of one field): a default or nil literal
\* that does not parse makes Default record one warning and leave the
\* field as it was.
C20_Original ==
    \A f \in CallFields :
        Malformed(f) => (Len(result.extras) = 1 /\ f.post = f.pre)

\* C20, the part about the rest of the walk: whatever the literals of the
\* first field of the record, the sibling after it and the fields of the
\* nested record are given their defaults.
C20_SiblingsProcessed ==
    (call.op = "Default" /\ before.kind = "ptr" /\ ~before.nilp
     /\ before.to \in Mixed) =>
        /\ config.to.members[2].v = Scalar("int", 1)
        /\ config.to.members[3].v.members[1].v = Scalar("int", 1)
        /\ config.to.members[3].v.members[2].v.kind = "ptr"
        /\ ~config.to.members[3].v.members[2].v.nilp

----------------------------------------------------------------------------
(* Which fields take part in Default and Limit                              *)

\* The warnings of the last call that name a field.
WarningsOf(name) ==
    {result.extras[i].err :
        i \in {k \in 1..Len(result.extras) : result.extras[k].field = name}}

\* A private field of scalar kind of the container Default or Limit was
\* called on.
Private(f) ==
    /\ call.op \in {"Default", "Limit"}
    /\ ~f.exported
    /\ IsScalar(f.pre)

\* C21 (as stated): a private field, tagged or not, adds no warning to the
\* result of Default and Limit and is never modified.
C21_Original ==
    \A f \in CallFields :
        Private(f) => (f.post = f.pre /\ WarningsOf(f.name) = {})

\* C21 (as amended): a private field is never modified by Default and
\* Limit and no operation is applied to it, so that it draws none of the
\* warnings of the default and the range; a private field without a config
\* tag draws the "no tag" warning as every field without one does.
C21_PrivateSkipped ==
    \A f \in CallFields :
        Private(f) =>
            /\ f.post = f.pre
            /\ WarningsOf(f.name) = IF f.tagged THEN {} ELSE {"ErrNoTag"}

\* A tagged private field at zero kept its value under Default and drew no
\* warning, next to an exported field that was given its default.
C21_Witness ==
    /\ DefaultCalled(FALSE)
    /\ \E f \in CallFields, g \in CallFields :
          /\ Private(f) /\ f.tagged /\ Has(f, DefaultKey)
          /\ AtZero(f.pre) /\ f.post = f.pre
          /\ WarningsOf(f.name) = {}
          /\ g.owner = f.owner /\ g.set /\ g.tags = f.tags
          /\ g.pre = f.pre /\ g.post # g.pre

\* An untagged private field drew the "no tag" warning.
C21_WitnessNoTag ==
    \E f \in CallFields :
        /\ Private(f) /\ ~f.tagged
        /\ f.post = f.pre
        /\ WarningsOf(f.name) = {"ErrNoTag"}

\* C22 (as stated): Limit lets only string and integer leaves take part: a
\* settable boolean leaf draws no warning, the "no range" warning of a tag
\* without a range key included, and is never modified.
C22_Original ==
    \A f \in CallFields :
        (call.op = "Limit" /\ f.set /\ f.pre.kind = "bool") =>
            (f.post = f.pre /\ WarningsOf(f.name) = {})

\* Limit on a settable boolean leaf tagged without a range key returned
\* the "no range" warning naming the leaf.
C22_NoRangeOnBool ==
    \E f \in CallFields :
        /\ call.op = "Limit" /\ f.set /\ f.pre.kind = "bool"
        /\ ~Has(f, RangeKey)
        /\ WarningsOf(f.name) = {"ErrNoRange"}

----------------------------------------------------------------------------
(* The registry and the type names of the wrappers: the calls that register *)
(* types and the two walks, on containers whose wrappers carry no type name *)
(* when the program starts.                                                 *)

Unnamed(c) ==
    /\ c # Invalid
    /\ \A p \in WrapperPaths(c) : TypeField(At(c, p)) = <<>>

\* What the callers register by hand, and the names they register under.
RegisteredValues == {Scalar("int", 7), Ptr(Data(42)), Data(42)}
RegisteredNames  == {<<"int">>, <<"*", "Data">>, <<"alias">>}

InitRegistry ==
    /\ config \in {c \in Configs : Unnamed(c)}
    /\ before = config
    /\ call = NoCall
    /\ result = NoResult
    /\ ncalls = 0
    /\ registry = {}
    /\ disk = NoFiles
    /\ saved = Invalid

CallRegisterType ==
    /\ ncalls < MaxCalls
    /\ \E value \in RegisteredValues :
          LET r == RegisterType(registry, value)
          IN  /\ registry' = r.reg
              /\ result' = [err |-> r.err, extras |-> <<>>, ret |-> FALSE]
    /\ before' = config
    /\ call' = Called("RegisterType")
    /\ ncalls' = ncalls + 1
    /\ UNCHANGED <<config, disk, saved>>

CallRegisterTypeByName ==
    /\ ncalls < MaxCalls
    /\ \E name \in RegisteredNames, value \in RegisteredValues :
          LET r == RegisterTypeByName(registry, name, value)
          IN  /\ registry' = r.reg
              /\ result' = [err |-> r.err, extras |-> <<>>, ret |-> FALSE]
    /\ before' = config
    /\ call' = Called("RegisterTypeByName")
    /\ ncalls' = ncalls + 1
    /\ UNCHANGED <<config, disk, saved>>

NextRegistry ==
    \/ CallRegisterType
    \/ CallRegisterTypeByName
    \/ CallRegisterInterfaces
    \/ CallInitializeInterfaces

SpecRegistry == InitRegistry /\ [][NextRegistry]_vars

\* The registry refuses the type of what wrapper w holds.
RegistryRefuses(w) ==
    /\ IsWrapper(w) /\ Holds(w)
    /\ RegisterNamed(registry, NameOf(w), ValueField(w).to).err
          = "ErrRegistration"

\* C23 (as stated): whatever calls of RegisterType, RegisterTypeByName,
\* RegisterInterfaces and InitializeInterfaces were made on wrappers that
\* started without a TypeName, the TypeName of every wrapper is empty or a
\* name of the registry; and after a RegisterInterfaces that returned the
\* error of a registration, the wrapper whose registration failed still has
\* an empty TypeName.
C23_Original ==
    /\ \A p \in WrapperPaths(config) :
          \/ TypeField(At(config, p)) = <<>>
          \/ Registered(registry, TypeField(At(config, p)))
    /\ (call.op = "RegisterInterfaces" /\ result.err = "ErrRegistration") =>
          \A p \in WrapperPaths(before) :
              (TypeField(At(before, p)) = <<>> /\ RegistryRefuses(At(before, p))) =>
                  TypeField(At(config, p)) = <<>>

\* RegisterInterfaces returned the error of a registration and left the
\* name of the refused type in the wrapper.
C23_NamedOnError ==
    /\ call.op = "RegisterInterfaces" /\ result.err = "ErrRegistration"
    /\ \E p \in WrapperPaths(before) :
          /\ TypeField(At(before, p)) = <<>> /\ RegistryRefuses(At(before, p))
          /\ TypeField(At(config, p)) = NameOf(At(before, p))

----------------------------------------------------------------------------
(* The walk of InitializeInterfaces and a type name nothing registered      *)

\* Wrapper w carries a type name that is not in the registry.
NotRegistered(w) ==
    IsWrapper(w) /\ TypeField(w) # <<>> /\ ~Registered(registry, TypeField(w))

\* Path p comes before path q in depth-first order.
Earlier(p, q) ==
    \E k \in 1..Len(p) :
        /\ k <= Len(q)
        /\ \A j \in 1..(k - 1) : p[j] = q[j]
        /\ p[k].i < q[k].i

\* The walk stopped at the wrapper at path p: that wrapper and every one
\* after it are as they were, and every one before it is as it was or holds
\* the zero instance of the type of its name.
StoppedAt(p) ==
    /\ NotRegistered(At(before, p))
    /\ \A q \in WrapperPaths(before) :
          /\ ~Earlier(q, p) => At(config, q) = At(before, q)
          /\ Earlier(q, p) => (At(config, q) = At(before, q) \/ Reconstructed(q))

\* C24 (as stated): when some wrapper of the container carries a TypeName
\* that is not registered, InitializeInterfaces returns the not-registered
\* error and the walk stops at such a wrapper, no later wrapper being
\* touched; and a ReadConfigFile whose InitializeInterfaces returned that
\* error returns it and does not decode a second time.
C24_Original ==
    /\ (call.op = "InitializeInterfaces"
        /\ \E p \in WrapperPaths(before) : NotRegistered(At(before, p))) =>
            /\ result.err = "ErrNotFound"
            /\ \E p \in WrapperPaths(before) : StoppedAt(p)
    /\ (call.op = "ReadConfigFile" /\ Len(ReadSteps) >= 2
        /\ ReadSteps[2].err = "ErrNotFound") =>
            /\ result.err = "ErrNotFound"
            /\ Len(ReadSteps) = 2

\* InitializeInterfaces returned nil on a container with a wrapper whose
\* TypeName is not registered.
C24_NotReached ==
    /\ call.op = "InitializeInterfaces"
    /\ result.err = "nil"
    /\ \E p \in WrapperPaths(before) : NotRegistered(At(before, p))

\* What holds of the claim: a not-registered error of InitializeInterfaces
\* stops the walk at a wrapper whose TypeName is not registered.
C24_ErrorStopsWalk ==
    /\ (call.op = "InitializeInterfaces" /\ result.err = "ErrNotFound") =>
            \E p \in WrapperPaths(before) : StoppedAt(p)
    /\ (call.op = "ReadConfigFile" /\ Len(ReadSteps) >= 2
        /\ ReadSteps[2].err = "ErrNotFound") =>
            /\ result.err = "ErrNotFound"
            /\ Len(ReadSteps) = 2

\* The walk stopped at a wrapper and left a later wrapper with a registered
\* TypeName as it was.
C24_StoppedBefore ==
    /\ call.op = "InitializeInterfaces" /\ result.err = "ErrNotFound"
    /\ \E p \in WrapperPaths(before), q \in WrapperPaths(before) :
          /\ StoppedAt(p) /\ Earlier(p, q)
          /\ Holds(At(before, q))
          /\ Registered(registry, TypeField(At(before, q)))

----------------------------------------------------------------------------
(* Two goroutines that register at the same time                            *)
(* Each goroutine calls RegisterInterfaces or WriteConfigFile on a          *)
(* container of its own; the registry is the one thing they share.  Here    *)
(* config, before, call and result hold one value per goroutine, and a step *)
(* is what a goroutine does between two accesses to the registry:           *)
(* call[g] = [op, ext, pc, i], pc being "walk" (at field i of the record),  *)
(* "register" (the name of field i is stored, RegisterNamed not yet         *)
(* called), "encode" (the walk returned nil) or "done".  RegisterNamed is   *)
(* one step, as the registry guards its map with a lock.                    *)

Goroutines == {1, 2}

\* The file each goroutine writes.
FileOf(g) == IF g = 1 THEN "user" ELSE "system"

\* The values the wrappers of the two containers hold.
SharedPayloads == {NilIface, Iface(Scalar("int", 7)), Iface(Ptr(Data(42)))}

\* A record whose wrappers are fields or behind one pointer, none named.
SharedConfigs ==
    {Ptr(Root(h, Interface(<<>>, y))) :
        h \in UNION {{Interface(<<>>, x), Ptr(Interface(<<>>, x))} :
                        x \in SharedPayloads},
        y \in SharedPayloads}

InitConcurrent ==
    /\ config \in [Goroutines -> SharedConfigs]
    /\ before = config
    /\ call \in [Goroutines ->
                   [op : {"RegisterInterfaces", "WriteConfigFile"},
                    ext : {"json"}, pc : {"walk"}, i : {1}]]
    /\ result = [g \in Goroutines |-> NoResult]
    /\ ncalls = 0
    /\ registry = {}
    /\ disk = NoFiles
    /\ saved = Invalid

\* Field i of the record of goroutine g, one pointer followed.
FieldAt(g) == Indirect1(config[g].to.members[call[g].i].v)

\* The container of goroutine g with wrapper w in field i.
WithField(g, w) ==
    LET m == config[g].to.members[call[g].i].v
    IN  IF m.kind = "ptr"
        THEN [config[g] EXCEPT !.to.members[call[g].i].v.to = w]
        ELSE [config[g] EXCEPT !.to.members[call[g].i].v = w]

\* registerInterfaces and registerInterfaceValue up to the call of
\* RegisterNamed: a field that is no wrapper, a wrapper that holds nothing
\* and a wrapper with a name are passed, any other wrapper is given the
\* name of the type of its Value.
WalkField(g) ==
    /\ call[g].pc = "walk"
    /\ call[g].i <= Len(config[g].to.members)
    /\ IF /\ IsInterfaceType(FieldAt(g))
          /\ ~ValueField(FieldAt(g)).nilp
          /\ TypeField(FieldAt(g)) = <<>>
       THEN /\ config' = [config EXCEPT ![g] =
                  WithField(g, SetTypeField(FieldAt(g),
                      GetLongTypeName(ValueField(FieldAt(g)).to)))]
            /\ call' = [call EXCEPT ![g].pc = "register"]
       ELSE /\ call' = [call EXCEPT ![g].i = @ + 1]
            /\ UNCHANGED config
    /\ UNCHANGED <<before, result, ncalls, registry, disk, saved>>

\* The call of RegisterNamed and what registerInterfaceValue makes of it.
RegisterName(g) ==
    /\ call[g].pc = "register"
    /\ LET r == registerWrapperNamed(FieldAt(g),
                    RegisterNamed(registry, TypeField(FieldAt(g)),
                                  ValueField(FieldAt(g)).to))
       IN  /\ registry' = r.reg
           /\ IF r.err = "nil"
              THEN /\ call' = [call EXCEPT ![g].pc = "walk", ![g].i = @ + 1]
                   /\ UNCHANGED result
              ELSE /\ call' = [call EXCEPT ![g].pc = "done"]
                   /\ result' = [result EXCEPT ![g].err = r.err]
    /\ UNCHANGED <<config, before, ncalls, disk, saved>>

\* The walk is over: RegisterInterfaces returns nil, WriteConfigFile goes on.
WalkDone(g) ==
    /\ call[g].pc = "walk"
    /\ call[g].i > Len(config[g].to.members)
    /\ call' = [call EXCEPT ![g].pc =
                  IF call[g].op = "WriteConfigFile" THEN "encode" ELSE "done"]
    /\ UNCHANGED <<config, before, result, ncalls, registry, disk, saved>>

\* WriteConfigFile after RegisterInterfaces returned nil.
WriteFile(g) ==
    /\ call[g].pc = "encode"
    /\ LET w == Written([config |-> config[g], reg |-> registry, err |-> "nil"],
                        disk[FileOf(g)], call[g].ext)
       IN  /\ disk' = [disk EXCEPT ![FileOf(g)] = w.file]
           /\ result' = [result EXCEPT ![g].err = w.err]
    /\ call' = [call EXCEPT ![g].pc = "done"]
    /\ UNCHANGED <<config, before, ncalls, registry, saved>>

NextConcurrent ==
    \E g \in Goroutines :
        \/ WalkField(g)
        \/ RegisterName(g)
        \/ WalkDone(g)
        \/ WriteFile(g)

SpecConcurrent == InitConcurrent /\ [][NextConcurrent]_vars

\* Goroutine g returned.
Done(g) == call[g].pc = "done"

\* The wrappers of the record of goroutine g, by the index of their field.
WrappersOf(g) ==
    {i \in 1..Len(before[g].to.members) :
        IsInterfaceType(Indirect1(before[g].to.members[i].v))}

WrapperBefore(g, i) == Indirect1(before[g].to.members[i].v)
WrapperAfter(g, i)  == Indirect1(config[g].to.members[i].v)

\* C25: two calls of RegisterInterfaces or WriteConfigFile that run at the
\* same time on containers of their own return nil both, whatever the
\* interleaving, and neither is ever kept from its next step; wrappers of the two containers that hold values of the
\* same type carry the same TypeName, and the registry has exactly one
\* entry of that name.
C25_ConcurrentRegister ==
    /\ \A g \in Goroutines : result[g].err = "nil"
    /\ \A g \in Goroutines :
          ~Done(g) => ENABLED (\/ WalkField(g) \/ RegisterName(g)
                               \/ WalkDone(g) \/ WriteFile(g))
    /\ (\A g \in Goroutines : Done(g)) =>
          \A i \in WrappersOf(1), j \in WrappersOf(2) :
              (/\ Holds(WrapperBefore(1, i)) /\ Holds(WrapperBefore(2, j))
               /\ TypeOf(WrapperBefore(1, i)) = TypeOf(WrapperBefore(2, j))) =>
                  /\ TypeField(WrapperAfter(1, i)) = NameOf(WrapperBefore(1, i))
                  /\ TypeField(WrapperAfter(2, j)) = TypeField(WrapperAfter(1, i))
                  /\ Cardinality({e \in registry :
                        e.name = NameOf(WrapperBefore(1, i))}) = 1

\* Both goroutines had stored the name of the same type before either
\* registered it, and both returned.
C25_Witness ==
    /\ \A g \in Goroutines : Done(g) /\ result[g].err = "nil"
    /\ \E i \in WrappersOf(1), j \in WrappersOf(2) :
          /\ Holds(WrapperBefore(1, i)) /\ Holds(WrapperBefore(2, j))
          /\ TypeOf(WrapperBefore(1, i)) = TypeOf(WrapperBefore(2, j))
          /\ TypeField(WrapperAfter(1, i)) = TypeField(WrapperAfter(2, j))
          /\ Registered(registry, TypeField(WrapperAfter(1, i)))
    /\ \E g \in Goroutines : call[g].op = "WriteConfigFile"

\* The two goroutines stand between the storing of the same name and its
\* registration.
C25_WitnessRace ==
    /\ \A g \in Goroutines : call[g].pc = "register"
    /\ TypeField(FieldAt(1)) = TypeField(FieldAt(2))
    /\ ~Registered(registry, TypeField(FieldAt(1)))

----------------------------------------------------------------------------
(* Sanitize against Default and Limit, and Limit against itself             *)

\* The value holds a nil pointer somewhere.
RECURSIVE HasNilPointer(_)
HasNilPointer(v) ==
    CASE v.kind = "ptr" -> v.nilp \/ HasNilPointer(v.to)
      [] v.kind = "interface" -> ~v.nilp /\ HasNilPointer(v.to)
      [] v.kind = "struct" ->
            \E i \in 1..Len(v.members) : HasNilPointer(v.members[i].v)
      [] v.kind \in {"array", "slice", "map"} ->
            \E i \in 1..Len(v.list) : HasNilPointer(v.list[i])
      [] OTHER -> FALSE


\* Default(c, false) followed by Limit(c, true), whatever reflectex answers.
DefaultThenLimit(c) ==
    {Limit(Default(c, FALSE, o1).config, TRUE, o2).config :
        o1 \in Oracles, o2 \in Oracles}

C26_WitnessTree ==
    /\ call.op = "Sanitize" /\ ~HasNilPointer(before)
    /\ \E f \in CallFields :
          f.pre.kind \in {"array", "slice", "map"} /\ f.post # f.pre
    /\ config \in DefaultThenLimit(before)

\* Sanitize changed the record a wrapper holds.
C26_WitnessWrapper ==
    /\ call.op = "Sanitize" /\ ~HasNilPointer(before)
    /\ \E f \in CallFields :
          IsWrapperField(f, "Value") /\ HoldsRecord(f.pre) /\ f.post # f.pre
    /\ config \in DefaultThenLimit(before)


C27_WitnessInverted ==
    /\ LimitCalled(TRUE) /\ ~HasNilPointer(before)
    /\ \E f \in CallFields :
          /\ f.set /\ IsScalar(f.pre) /\ Has(f, RangeKey)
          /\ f.tags[RangeKey] = <<"8", ":", "2">>
          /\ f.post # f.pre

\* Limit(r, false) changed a field whose tag has no default.
C27_WitnessNoDefault ==
    /\ LimitCalled(FALSE) /\ ~HasNilPointer(before)
    /\ \E f \in CallFields :
          /\ f.set /\ IsScalar(f.pre) /\ Has(f, RangeKey)
          /\ ~Has(f, DefaultKey)
          /\ f.post # f.pre

\* Limit changed a field that is outside the choices of its tag.
C27_WitnessChoices ==
    /\ call.op = "Limit" /\ ~HasNilPointer(before)
    /\ \E f \in CallFields :
          /\ f.set /\ IsScalar(f.pre) /\ Has(f, RangeKey)
          /\ Contains(f.tags[RangeKey], ",")
          /\ f.post # f.pre

----------------------------------------------------------------------------
(* The two walks over the same container                                    *)

\* InitializeInterfaces completes on container c with the registry as it
\* is: it returns a result and raises no run-time panic.
InitializeCompletes(c) == InitializeInterfaces(c, registry).err # "panic"

\* C28 (as stated): RegisterInterfaces returns a result, nil or an error,
\* and raises no run-time panic on every container on which
\* InitializeInterfaces completes, a container with a sequence of scalars,
\* with a sequence of pointers to records or with a map that is not empty
\* among them.
C28_Original ==
    (call.op = "RegisterInterfaces" /\ InitializeCompletes(before)) =>
        result.err # "panic"

\* RegisterInterfaces panicked on a record with a sequence of scalars, on
\* which InitializeInterfaces completes.
C28_PanicOnScalars ==
    /\ call.op = "RegisterInterfaces" /\ result.err = "panic"
    /\ InitializeCompletes(before)
    /\ before.kind = "ptr"
    /\ \E i \in 1..Len(before.to.members) :
          /\ before.to.members[i].v.kind = "slice"
          /\ before.to.members[i].v.list # <<>>
          /\ before.to.members[i].v.list[1].kind = "int"

\* RegisterInterfaces panicked on a record with a map of wrappers that is
\* not empty, on which InitializeInterfaces completes.
C28_PanicOnMap ==
    /\ call.op = "RegisterInterfaces" /\ result.err = "panic"
    /\ InitializeCompletes(before)
    /\ before.kind = "ptr"
    /\ \E i \in 1..Len(before.to.members) :
          /\ before.to.members[i].v.kind = "map"
          /\ before.to.members[i].v.list # <<>>

----------------------------------------------------------------------------
(* What the walks leave in the Value of a wrapper                           *)

WalkCalled == call.op \in {"RegisterInterfaces", "InitializeInterfaces"}

\* What the Value of a wrapper holds, Invalid when it holds nothing.
Payload(w) == IF IsWrapper(w) /\ Holds(w) THEN ValueField(w).to ELSE Invalid

\* The wrappers inside the Value of the wrapper at path p, as pairs of what
\* they were before the call and what the same place holds after it.
Nested(p) ==
    {<<At(Payload(At(before, p)), q), At(Payload(At(config, p)), q)>> :
        q \in WrapperPaths(Payload(At(before, p)))}

\* C29 (as stated): neither RegisterInterfaces nor InitializeInterfaces
\* descends into the Value of a wrapper: a wrapper inside the record that
\* the Value of another wrapper holds has, after the call, the TypeName and
\* the Value it had before it.
C29_Original ==
    WalkCalled =>
        \A p \in WrapperPaths(before) :
            \A n \in Nested(p) : n[2] = n[1]

\* C29 (as amended): neither walk descends into the Value of a wrapper.
\* RegisterInterfaces leaves every Value as it was, the wrappers inside it
\* included.  InitializeInterfaces leaves the Value of a wrapper without
\* TypeName as it was, and the Value of a wrapper with a TypeName either
\* as it was or replaced as a whole by the zero instance of the registered
\* type, in which the wrappers the old Value held no longer exist.
C29_PayloadWhole ==
    WalkCalled =>
        \A p \in WrapperPaths(before) :
            \/ /\ IsWrapper(At(config, p))
               /\ ValueField(At(config, p)) = ValueField(At(before, p))
            \/ /\ call.op = "InitializeInterfaces"
               /\ Reconstructed(p)

\* RegisterInterfaces named a wrapper whose Value holds a record with an
\* unnamed wrapper, and left the inner wrapper unnamed.
C29_Witness ==
    /\ call.op = "RegisterInterfaces" /\ result.err = "nil"
    /\ \E p \in WrapperPaths(before) :
          /\ TypeField(At(before, p)) = <<>>
          /\ TypeField(At(config, p)) = <<"*", "Inner">>
          /\ \E n \in Nested(p) :
                /\ Holds(n[1]) /\ TypeField(n[1]) = <<>>
                /\ n[2] = n[1]

\* InitializeInterfaces replaced a Value that held a record with a wrapper:
\* the place of the inner wrapper holds an empty wrapper.
C29_WitnessReplaced ==
    /\ call.op = "InitializeInterfaces" /\ result.err = "nil"
    /\ \E p \in WrapperPaths(before) :
          /\ Reconstructed(p)
          /\ \E n \in Nested(p) :
                /\ Holds(n[1])
                /\ n[2] = Interface(<<>>, NilIface)


\* Value v with the Value of every wrapper that carries a TypeName emptied:
\* what is left is the TypeNames, the wrappers without TypeName and all
\* that is no wrapper.
RECURSIVE WithoutValues(_)
WithoutValues(v) ==
    CASE IsInterfaceType(v) ->
            IF TypeField(v) = <<>> THEN v ELSE SetValueField(v, NilIface)
      [] v.kind = "struct" ->
            [v EXCEPT !.members =
                [i \in 1..Len(v.members) |->
                    [v.members[i] EXCEPT !.v = WithoutValues(v.members[i].v)]]]
      [] v.kind = "ptr" /\ ~v.nilp -> [v EXCEPT !.to = WithoutValues(v.to)]
      [] v.kind \in {"array", "slice", "map"} ->
            [v EXCEPT !.list = [i \in 1..Len(v.list) |-> WithoutValues(v.list[i])]]
      [] OTHER -> v

\* The walk of InitializeInterfaces comes to the wrapper at path p: no
\* pointer to a pointer lies on the way.
Reached(p) ==
    \A i \in 1..(Len(p) - 1) : ~(p[i].s = "ptr" /\ p[i + 1].s = "ptr")

C30_WitnessOtherType ==
    /\ call.op = "InitializeInterfaces" /\ result.err = "nil"
    /\ \E p \in WrapperPaths(before) :
          /\ Holds(At(before, p))
          /\ NameOf(At(before, p)) # TypeField(At(before, p))
          /\ Reconstructed(p)

====
